---- MODULE Spec2Model ----
(***************************************************************************)
(* Verification model of the combat-log line parser (wowlogs_parser).      *)
(*                                                                         *)
(* Fields are TLA+ strings and every decoder works on their characters,    *)
(* as the Rust code does.  Every decoder returns one of                    *)
(*     [tag |-> "Ok",    val  |-> v]   the Rust Ok(v)                      *)
(*     [tag |-> "Err",   kind |-> k]   the Rust Err(anyhow!(k ...))        *)
(*     [tag |-> "Panic", kind |-> k]   the thread panics (index or slice   *)
(*                                     out of range, unwrap on None)       *)
(* and the first failing step of a decoder, in evaluation order, is its    *)
(* outcome.                                                                *)
(***************************************************************************)
EXTENDS Integers, Sequences, FiniteSets, TLC

\* ------------------------------------------------------------------------
\* Results
\* ------------------------------------------------------------------------
Ok(v) == [tag |-> "Ok", val |-> v]

Err(k) == [tag |-> "Err", kind |-> k]

Panic(k) == [tag |-> "Panic", kind |-> k]

IsOk(r) == r.tag = "Ok"

None == [some |-> FALSE]

Some(v) == [some |-> TRUE, v |-> v]

\* Ok(Some(v)) of an Ok(v), a failure unchanged
SomeOf(r) == IF IsOk(r) THEN Ok(Some(r.val)) ELSE r

\* a struct literal  S { f1: e1?, f2: e2?, .. }: t gives the result of every
\* field's expression and order the fields in evaluation order.  The first
\* failure in that order is the outcome, else Ok of the record of values.
Build(t, order) ==
    IF \A k \in 1..Len(order) : IsOk(t[order[k]])
    THEN Ok([n \in DOMAIN t |-> t[n].val])
    ELSE t[order[CHOOSE k \in 1..Len(order) : ~IsOk(t[order[k]]) /\ \A j \in 1..(k - 1) : IsOk(t[order[j]])]]

\* ------------------------------------------------------------------------
\* Characters and strings
\* ------------------------------------------------------------------------
Ch(s, i) == SubSeq(s, i, i)

UpperChars == "ABCDEFGHIJKLMNOPQRSTUVWXYZ"

LowerChars == "abcdefghijklmnopqrstuvwxyz"

HexChars == "0123456789abcdef"

\* the upper-case letter of each lower-case one, and the reverse
UpperOf == [c \in {Ch(LowerChars, i) : i \in 1..26} |-> Ch(UpperChars, CHOOSE i \in 1..26 : Ch(LowerChars, i) = c)]

LowerOf == [c \in {Ch(UpperChars, i) : i \in 1..26} |-> Ch(LowerChars, CHOOSE i \in 1..26 : Ch(UpperChars, i) = c)]

to_ascii_uppercase(c) == IF c \in DOMAIN UpperOf THEN UpperOf[c] ELSE c

to_ascii_lowercase(c) == IF c \in DOMAIN LowerOf THEN LowerOf[c] ELSE c

starts_with(x, p) == Len(p) <= Len(x) /\ SubSeq(x, 1, Len(p)) = p

ends_with(x, s) == Len(s) <= Len(x) /\ SubSeq(x, Len(x) - Len(s) + 1, Len(x)) = s

RECURSIVE trim_start_matches(_, _)
trim_start_matches(x, p) == IF starts_with(x, p) THEN trim_start_matches(SubSeq(x, Len(p) + 1, Len(x)), p) ELSE x

\* position of the first occurrence of sep in s at or after i, 0 when none
RECURSIVE FindFrom(_, _, _)
FindFrom(s, sep, i) == IF i + Len(sep) - 1 > Len(s) THEN 0 ELSE IF SubSeq(s, i, i + Len(sep) - 1) = sep THEN i ELSE FindFrom(s, sep, i + 1)

\* char::to_digit(16): the place of c among the hexadecimal digits, in either
\* case, -1 when it is none
to_digit16(c) == IF Len(c) = 1 THEN FindFrom(HexChars, to_ascii_lowercase(c), 1) - 1 ELSE -1

\* d when it is a digit of the radix, -1 when it is none
DigitBelow(d, radix) == IF d < radix THEN d ELSE -1

\* the value of c as a digit of the radix, -1 when it is none
DigitVal(c, radix) == DigitBelow(to_digit16(c), radix)

\* the parts of s from position i on, the first of them ending at position j - 1
RECURSIVE SplitAt(_, _, _, _)
SplitAt(s, sep, i, j) == IF j = 0 THEN <<SubSeq(s, i, Len(s))>> ELSE <<SubSeq(s, i, j - 1)>> \o SplitAt(s, sep, j + Len(sep), FindFrom(s, sep, j + Len(sep)))

\* str::split(sep): always at least one part
split(s, sep) == SplitAt(s, sep, 1, FindFrom(s, sep, 1))

\* the two parts around the separator at position i, the whole when i = 0
CutAt(s, sep, i) == IF i = 0 THEN <<s>> ELSE <<SubSeq(s, 1, i - 1), SubSeq(s, i + Len(sep), Len(s))>>

\* str::splitn(2, sep)
splitn2(s, sep) == CutAt(s, sep, FindFrom(s, sep, 1))

RECURSIVE MapChars(_, _)
MapChars(s, i) == IF i > Len(s) THEN "" ELSE (IF i = 1 THEN to_ascii_uppercase(Ch(s, i)) ELSE to_ascii_lowercase(Ch(s, i))) \o MapChars(s, i + 1)

to_camel_case(s) == MapChars(s, 1)

RECURSIVE join(_, _)
join(line, sep) == IF Len(line) = 0 THEN "" ELSE IF Len(line) = 1 THEN line[1] ELSE line[1] \o sep \o join(Tail(line), sep)

\* ------------------------------------------------------------------------
\* Primitive decoders (src/utils.rs and the std integer / float parsers)
\* ------------------------------------------------------------------------
AllDigits(d, radix) == Len(d) > 0 /\ \A i \in 1..Len(d) : DigitVal(Ch(d, i), radix) >= 0

\* the value of the first n digits of d
RECURSIVE DigitsVal(_, _, _)
DigitsVal(d, n, radix) == IF n = 0 THEN 0 ELSE radix * DigitsVal(d, n - 1, radix) + DigitVal(Ch(d, n), radix)

\* a <= b from position i on, for two digit strings of the same length
RECURSIVE LexLE(_, _, _, _)
LexLE(a, b, i, radix) == IF i > Len(a) THEN TRUE ELSE IF DigitVal(Ch(a, i), radix) # DigitVal(Ch(b, i), radix) THEN DigitVal(Ch(a, i), radix) < DigitVal(Ch(b, i), radix) ELSE LexLE(a, b, i + 1, radix)

\* the magnitude written by the digits t (no leading zero) is at most max
FitsBelow(t, radix, max) == Len(t) < Len(max) \/ (Len(t) = Len(max) /\ LexLE(t, max, 1, radix))

\* the sign s starts with: '+', or '-' for a signed type
SignOf(s, signed) == IF starts_with(s, "+") THEN "+" ELSE IF signed /\ starts_with(s, "-") THEN "-" ELSE ""

\* the number written by sign and digits d, when d has digits only and the
\* value is within the type's range
Magnitude(sign, d, t, radix, maxpos, maxneg) ==
    IF AllDigits(d, radix) /\ FitsBelow(t, radix, IF sign = "-" THEN maxneg ELSE maxpos)
    THEN Ok(IF sign = "-" THEN 0 - DigitsVal(t, Len(t), radix) ELSE DigitsVal(t, Len(t), radix))
    ELSE Err("invalid integer")

\* <int>::from_str_radix: an optional '+' (or '-' for a signed type), then
\* one or more digits of the radix, the value within the type's range
from_str_radix(s, radix, signed, maxpos, maxneg) ==
    Magnitude(SignOf(s, signed), SubSeq(s, Len(SignOf(s, signed)) + 1, Len(s)),
              trim_start_matches(SubSeq(s, Len(SignOf(s, signed)) + 1, Len(s)), "0"), radix, maxpos, maxneg)

u64_from_str(s) == from_str_radix(s, 10, FALSE, "18446744073709551615", "0")

\* the position of the first 'e' or 'E' of s at or after i, 0 when none
RECURSIVE ExpPos(_, _)
ExpPos(s, i) == IF i > Len(s) THEN 0 ELSE IF to_ascii_lowercase(Ch(s, i)) = "e" THEN i ELSE ExpPos(s, i + 1)

\* s from position i on, in lower case
RECURSIVE LowerFrom(_, _)
LowerFrom(s, i) == IF i > Len(s) THEN "" ELSE to_ascii_lowercase(Ch(s, i)) \o LowerFrom(s, i + 1)

\* a mantissa: digits with at most one '.', at least one digit
IsMantissa(parts) == Len(parts) <= 2 /\ AllDigits(IF Len(parts) = 1 THEN parts[1] ELSE parts[1] \o parts[2], 10)

\* the unsigned part of a float: inf, infinity, nan, or a mantissa and, after
\* the e at epos, an optional sign and one or more digits
IsFloatBody(body, epos) ==
    \/ LowerFrom(body, 1) \in {"inf", "infinity", "nan"}
    \/ /\ IsMantissa(split(IF epos = 0 THEN body ELSE SubSeq(body, 1, epos - 1), "."))
       /\ (epos = 0 \/ AllDigits(SubSeq(body, IF epos < Len(body) /\ Ch(body, epos + 1) \in {"+", "-"} THEN epos + 2 ELSE epos + 1, Len(body)), 10))

\* the part of s after an optional sign
Unsigned(s) == IF starts_with(s, "+") \/ starts_with(s, "-") THEN Tail(s) ELSE s

\* f32::from_str.  The value is kept as its numeral.
f32_from_str(s) == IF IsFloatBody(Unsigned(s), ExpPos(Unsigned(s), 1)) THEN Ok([f32 |-> s]) ELSE Err("invalid float")

\* .map_err(|_| anyhow!(..)): the failure renamed, a success unchanged
map_err(r, k) == IF IsOk(r) THEN r ELSE Err(k)

parse_num_u64(x) == map_err(u64_from_str(x), "Failed to parse u64")

parse_num_i64(x) == map_err(from_str_radix(x, 10, TRUE, "9223372036854775807", "9223372036854775808"), "Failed to parse i64")

parse_num_i8(x) == map_err(from_str_radix(x, 10, TRUE, "127", "128"), "Failed to parse i8")

parse_num_f32(x) == map_err(f32_from_str(x), "Failed to parse f32")

parse_bool(x) == IF x = "nil" \/ x = "0" THEN Ok(FALSE) ELSE IF x = "1" THEN Ok(TRUE) ELSE Err("Failed to parse bool")

parse_hex(x) == map_err(from_str_radix(trim_start_matches(x, "0x"), 16, FALSE, "ffffffffffffffff", "0"), "Error parsing hex")

\* Iterator::collect::<Result<Vec<_>>>(): the first failure, else all values
Collect(rs) ==
    IF \A i \in 1..Len(rs) : IsOk(rs[i]) THEN Ok([i \in 1..Len(rs) |-> rs[i].val])
    ELSE rs[CHOOSE i \in 1..Len(rs) : ~IsOk(rs[i]) /\ \A j \in 1..(i - 1) : IsOk(rs[j])]

\* line[i] decoded (i counted from 0, as in the source): a missing field
\* panics
OutOfBounds == Panic("index out of bounds")

OutOfRange == Panic("slice out of range")

u64At(line, i) == IF i < Len(line) THEN parse_num_u64(line[i + 1]) ELSE OutOfBounds

i64At(line, i) == IF i < Len(line) THEN parse_num_i64(line[i + 1]) ELSE OutOfBounds

f32At(line, i) == IF i < Len(line) THEN parse_num_f32(line[i + 1]) ELSE OutOfBounds

boolAt(line, i) == IF i < Len(line) THEN parse_bool(line[i + 1]) ELSE OutOfBounds

\* line[i].to_string()
textAt(line, i) == IF i < Len(line) THEN Ok(line[i + 1]) ELSE OutOfBounds

\* ------------------------------------------------------------------------
\* GUID (src/components/guid.rs)
\* ------------------------------------------------------------------------
CreatureType == {"Creature", "Pet", "GameObject", "Vehicle"}

\* every kind token but the creature kinds read as a Player
GUID_match_any_kind(parts) ==
    IF parts[1] \in {"Pet", "Creature", "GameObject", "Vehicle"}
    THEN Build([kind |-> Ok("Creature"), unit_type |-> Ok(parts[1]), server_id |-> u64At(parts, 2),
                instance_id |-> u64At(parts, 3), zone_uid |-> u64At(parts, 4), id |-> u64At(parts, 5),
                spawn_uid |-> textAt(parts, 6)],
               <<"unit_type", "server_id", "instance_id", "zone_uid", "id", "spawn_uid">>)
    ELSE Build([kind |-> Ok("Player"), server_id |-> u64At(parts, 1), player_uid |-> textAt(parts, 2)],
               <<"server_id", "player_uid">>)

\* the match on parts[0]
GUID_match(parts) ==
    IF parts[1] = "Player"
    THEN Build([kind |-> Ok("Player"), server_id |-> u64At(parts, 1), player_uid |-> textAt(parts, 2)],
               <<"server_id", "player_uid">>)
    ELSE IF parts[1] \in {"Pet", "Creature", "GameObject", "Vehicle"}
    THEN Build([kind |-> Ok("Creature"), unit_type |-> IF parts[1] \in CreatureType THEN Ok(parts[1]) ELSE Err("Error parsing CreatureType"), server_id |-> u64At(parts, 2),
                instance_id |-> u64At(parts, 3), zone_uid |-> u64At(parts, 4), id |-> u64At(parts, 5),
                spawn_uid |-> textAt(parts, 6)],
               <<"unit_type", "server_id", "instance_id", "zone_uid", "id", "spawn_uid">>)
    ELSE Err("GUID type not found")

GUID_parse(s) == IF s = "0000000000000000" THEN Ok(None) ELSE SomeOf(GUID_match(split(s, "-")))

guidAt(line, i) == IF i < Len(line) THEN GUID_parse(line[i + 1]) ELSE OutOfBounds

\* ------------------------------------------------------------------------
\* Enumerated domain codes (src/components/enums.rs)
\* ------------------------------------------------------------------------
SpellSchoolBits == <<[name |-> "Physical", bit |-> 1], [name |-> "Holy", bit |-> 2], [name |-> "Fire", bit |-> 4],
                     [name |-> "Nature", bit |-> 8], [name |-> "Frost", bit |-> 16], [name |-> "Shadow", bit |-> 32],
                     [name |-> "Arcane", bit |-> 64]>>

\* the filter taking every school not above the mask
BitSet_at_least(mask, bit) == mask >= bit

\* e as u8 & s != 0 for a one-bit e
BitSet(mask, bit) == (mask \div bit) % 2 = 1

RECURSIVE FilterSchools(_, _)
FilterSchools(mask, i) == IF i > Len(SpellSchoolBits) THEN <<>> ELSE (IF BitSet(mask, SpellSchoolBits[i].bit) THEN <<SpellSchoolBits[i].name>> ELSE <<>>) \o FilterSchools(mask, i + 1)

\* the schools of a parsed mask
SchoolsOf(m) == IF IsOk(m) THEN Ok(Some(FilterSchools(m.val, 1))) ELSE Err("Could not parse spell school as u8")

SpellSchool_parse(s) ==
    IF s = "-1" THEN Ok(None)
    ELSE SchoolsOf(IF starts_with(s, "0x") THEN from_str_radix(trim_start_matches(s, "0x"), 16, FALSE, "ff", "0") ELSE from_str_radix(s, 10, FALSE, "255", "0"))

schoolAt(line, i) == IF i < Len(line) THEN SpellSchool_parse(line[i + 1]) ELSE OutOfBounds

PowerTypeNames == <<"Mana", "Rage", "Focus", "Energy", "ComboPoints", "Runes", "RunicPower", "SoulShards", "LunarPower",
                    "HolyPower", "Alternate", "Maelstrom", "Chi", "Insanity", "Obsolete", "Obsolete2", "ArcaneCharges",
                    "Fury", "Pain", "Essence", "RuneBlood", "RuneFrost", "RuneUnholy", "AlternateQuest",
                    "AlternateEncounter", "AlternateMount">>

\* PowerType::from_repr of a parsed i8
PowerType_from_repr(n) ==
    IF ~IsOk(n) THEN n
    ELSE IF n.val = 0 - 2 THEN Ok(Some("Health"))
    ELSE IF n.val >= 0 /\ n.val < Len(PowerTypeNames) THEN Ok(Some(PowerTypeNames[n.val + 1]))
    ELSE Err("Failed to find matching PowerType")

PowerType_parse(s) == IF s = "-1" THEN Ok(None) ELSE PowerType_from_repr(parse_num_i8(s))

\* EnumString::from_str of the camel-cased word
from_camel(c, names, k) == IF c \in names THEN Ok(c) ELSE Err(k)

MissTypeNames == {"Absorb", "Block", "Deflect", "Dodge", "Evade", "Immune", "Miss", "Parry", "Reflect", "Resist"}

MissType_parse(s) == from_camel(to_camel_case(s), MissTypeNames, "Failed to parse MissType")

AuraTypeNames == {"Buff", "Debuff"}

AuraType_parse(s) == from_camel(to_camel_case(s), AuraTypeNames, "Failed to parse AuraType")

auraAt(line, i) == IF i < Len(line) THEN AuraType_parse(line[i + 1]) ELSE OutOfBounds

EnvironmentalTypeNames == {"Drowning", "Falling", "Fatigue", "Fire", "Lava", "Slime"}

EnvironmentalType_parse(s) == from_camel(to_camel_case(s), EnvironmentalTypeNames, "Error parsing Environmental prefix")

\* ------------------------------------------------------------------------
\* Actor and SpellInfo (src/common_components.rs)
\* ------------------------------------------------------------------------
\* opt?.with_context(..)?: the value of an Ok(Some(v)), an error for Ok(None)
with_context(r, k) == IF ~IsOk(r) THEN r ELSE IF r.val.some THEN Ok(r.val.v) ELSE Err(k)

\* SpellInfo::parse_record: the school is decoded first and must be present
\* (an absent school, "-1", fails), then the id; the name is copied
SpellInfo_parse(line) ==
    IF Len(line) # 3 THEN Panic("assertion failed: line.len() == 3")
    ELSE Build([spell_school |-> with_context(schoolAt(line, 2), "Error parsing spell school"),
                spell_id |-> u64At(line, 0), spell_name |-> textAt(line, 1)],
               <<"spell_school", "spell_id", "spell_name">>)

\* SpellInfo::parse(&line[a..a + 3])
SpellInfoAt(line, a) == IF a + 3 <= Len(line) THEN SpellInfo_parse(SubSeq(line, a + 1, a + 3)) ELSE OutOfRange

raid_flags_parse(x) == IF x = "nil" THEN Ok(None) ELSE SomeOf(parse_hex(x))

\* the value inside an Ok(Some(v))
Inner(r) == IF IsOk(r) THEN Ok(r.val.v) ELSE r

\* the flags validated before the GUID is looked at
Actor_of_flags_first(guid, line) ==
    IF ~IsOk(guid) THEN guid
    ELSE IF ~(2 < Len(line)) THEN OutOfBounds
    ELSE IF ~IsOk(parse_hex(line[3])) THEN parse_hex(line[3])
    ELSE IF ~guid.val.some THEN Ok(None)
    ELSE SomeOf(Build([guid |-> Inner(guid), name |-> textAt(line, 1), flags |-> parse_hex(line[3]),
                       raid_flags |-> IF 3 < Len(line) THEN raid_flags_parse(line[4]) ELSE OutOfBounds],
                      <<"guid", "name", "flags", "raid_flags">>))

\* the actor of a parsed GUID: none for the null GUID
Actor_of(guid, line) ==
    IF IsOk(guid) /\ ~guid.val.some THEN Ok(None)
    ELSE SomeOf(Build([guid |-> Inner(guid), name |-> textAt(line, 1), flags |-> IF 2 < Len(line) THEN parse_hex(line[3]) ELSE OutOfBounds,
                       raid_flags |-> IF 3 < Len(line) THEN raid_flags_parse(line[4]) ELSE OutOfBounds],
                      <<"guid", "name", "flags", "raid_flags">>))

Actor_parse(line) == Actor_of(guidAt(line, 0), line)

\* Actor::parse(&line[a..a + 4])
ActorAt(line, a) == IF a + 4 <= Len(line) THEN Actor_parse(SubSeq(line, a + 1, a + 4)) ELSE OutOfRange

\* ------------------------------------------------------------------------
\* Advanced-state block (src/components/advanced.rs)
\* ------------------------------------------------------------------------
Min(a, b) == IF a < b THEN a ELSE b

\* the closure of PowerInfo::parse: one resource
PowerInfo_entry(t, cur, max, cost) ==
    Build([power_type |-> PowerType_parse(t), current_power |-> parse_num_u64(cur), max_power |-> parse_num_u64(max),
           power_cost |-> parse_num_u64(cost)],
          <<"power_type", "current_power", "max_power", "power_cost">>)

\* izip!(..).map(..).collect(): as many resources as the shortest list has
PowerInfo_zip(t, cur, max, cost) ==
    Collect([i \in 1..Min(Min(Len(t), Len(cur)), Min(Len(max), Len(cost))) |-> PowerInfo_entry(t[i], cur[i], max[i], cost[i])])

PowerInfo_parse(line) ==
    IF Len(line) # 4 THEN Panic("assertion failed: line.len() == 4")
    ELSE PowerInfo_zip(split(line[1], "|"), split(line[2], "|"), split(line[3], "|"), split(line[4], "|"))

Position_parse(line_xy, line_facing) ==
    IF Len(line_xy) # 2 THEN Panic("assertion failed: line_xy.len() == 2")
    ELSE Build([x |-> parse_num_f32(line_xy[1]), y |-> parse_num_f32(line_xy[2]), facing |-> parse_num_f32(line_facing)],
               <<"x", "y", "facing">>)

\* the decoder with facing read from field 14 and the map id from field 15
AdvancedParams_parse_facing_first(line) ==
    IF Len(line) # 17 THEN Panic("assertion failed: line.len() == 17")
    ELSE Build([info_guid |-> guidAt(line, 0), owner_guid |-> guidAt(line, 1), current_hp |-> u64At(line, 2),
                max_hp |-> u64At(line, 3), attack_power |-> u64At(line, 4), spell_power |-> u64At(line, 5),
                armor |-> u64At(line, 6), absorb |-> u64At(line, 7), power_info |-> PowerInfo_parse(SubSeq(line, 9, 12)),
                position |-> Position_parse(SubSeq(line, 13, 14), line[15]), ui_map_id |-> u64At(line, 15),
                level_or_ilvl |-> u64At(line, 16)],
               <<"info_guid", "owner_guid", "current_hp", "max_hp", "attack_power", "spell_power", "armor", "absorb",
                 "power_info", "position", "ui_map_id", "level_or_ilvl">>)

AdvancedParams_parse(line) ==
    IF Len(line) # 17 THEN Panic("assertion failed: line.len() == 17")
    ELSE Build([info_guid |-> guidAt(line, 0), owner_guid |-> guidAt(line, 1), current_hp |-> u64At(line, 2),
                max_hp |-> u64At(line, 3), attack_power |-> u64At(line, 4), spell_power |-> u64At(line, 5),
                armor |-> u64At(line, 6), absorb |-> u64At(line, 7), power_info |-> PowerInfo_parse(SubSeq(line, 9, 12)),
                position |-> Position_parse(SubSeq(line, 13, 14), line[16]), ui_map_id |-> u64At(line, 14),
                level_or_ilvl |-> u64At(line, 16)],
               <<"info_guid", "owner_guid", "current_hp", "max_hp", "attack_power", "spell_power", "armor", "absorb",
                 "power_info", "position", "ui_map_id", "level_or_ilvl">>)

\* AdvancedParams::parse(&line[a..b])
AdvancedParamsAt(line, a, b) == IF a <= b /\ b <= Len(line) THEN AdvancedParams_parse(SubSeq(line, a + 1, b)) ELSE OutOfRange

\* ------------------------------------------------------------------------
\* Prefix dispatcher (src/components/prefixes.rs)
\* ------------------------------------------------------------------------
\* the generic SPELL guard ahead of the two longer SPELL guards
PrefixArms_generic_first == <<"SWING", "RANGE", "SPELL", "SPELL_PERIODIC", "SPELL_BUILDING", "ENVIRONMENTAL">>

\* the guards of the match in Prefix::parse, in source order
PrefixArms == <<"SWING", "RANGE", "SPELL_PERIODIC", "SPELL_BUILDING", "SPELL", "ENVIRONMENTAL">>

\* the first arm whose guard x.starts_with(arm) holds, "" when none does
PrefixArm(event_type) ==
    IF \E i \in 1..Len(PrefixArms) : starts_with(event_type, PrefixArms[i])
    THEN PrefixArms[CHOOSE i \in 1..Len(PrefixArms) : starts_with(event_type, PrefixArms[i]) /\ \A j \in 1..(i - 1) : ~starts_with(event_type, PrefixArms[j])]
    ELSE ""

\* Self::Range / Self::SpellPeriodic / Self::SpellBuilding (SpellInfo::parse(&line[..3])?)
Prefix_of(shape, info) == Build([shape |-> Ok(shape), spell_info |-> info], <<"spell_info">>)

\* the body of the arm taken; info is SpellInfo::parse(&line[..3])
Prefix_match(arm, line, info) ==
    CASE arm = "SWING" -> Ok([shape |-> "Swing"])
      [] arm = "RANGE" -> Prefix_of("Range", info)
      [] arm = "SPELL_PERIODIC" -> Prefix_of("SpellPeriodic", info)
      [] arm = "SPELL_BUILDING" -> Prefix_of("SpellBuilding", info)
      [] arm = "SPELL" -> IF Len(line) = 0 THEN Ok([shape |-> "Spell", spell_info |-> None])
                          ELSE IF Len(line) = 3 THEN Prefix_of("Spell", SomeOf(info))
                          ELSE Err("Bad number of entries for Spell")
      [] arm = "ENVIRONMENTAL" ->
           Build([shape |-> Ok("Environmental"),
                  env_type |-> IF 0 < Len(line) THEN EnvironmentalType_parse(line[1]) ELSE OutOfBounds],
                 <<"env_type">>)
      [] OTHER -> Err("Unknown prefix")

Prefix_parse(event_type, line) == Prefix_match(PrefixArm(event_type), line, SpellInfoAt(line, 0))

\* Prefix::parse(event_type, &line[a..b])
PrefixAt(event_type, line, a, b) == IF a <= b /\ b <= Len(line) THEN Prefix_parse(event_type, SubSeq(line, a + 1, b)) ELSE OutOfRange

entries_to_consume(event_type) ==
    IF starts_with(event_type, "SWING") THEN Ok(0)
    ELSE IF starts_with(event_type, "RANGE") \/ starts_with(event_type, "SPELL_PERIODIC")
            \/ starts_with(event_type, "SPELL_BUILDING") \/ starts_with(event_type, "SPELL") THEN Ok(3)
    ELSE IF starts_with(event_type, "ENVIRONMENTAL") THEN Ok(1)
    ELSE Err("Unknown prefix")

\* ------------------------------------------------------------------------
\* Suffix dispatcher (src/components/suffixes.rs)
\* ------------------------------------------------------------------------
\* the guards of the match in Suffix::parse, in source order
SuffixArms == <<"DAMAGE", "DAMAGE_LANDED", "MISSED", "HEAL", "HEAL_ABSORBED", "ABSORBED", "ENERGIZE", "DRAIN", "LEECH",
                "EMPOWER_INTERRUPT", "INTERRUPT", "DISPEL", "DISPEL_FAILED", "STOLEN", "EXTRA_ATTACKS", "AURA_APPLIED",
                "AURA_REMOVED", "AURA_APPLIED_DOSE", "AURA_REMOVED_DOSE", "AURA_REFRESH", "AURA_BROKEN",
                "AURA_BROKEN_SPELL", "CAST_START", "CAST_SUCCESS", "CAST_FAILED", "INSTAKILL", "DURABILITY_DAMAGE",
                "DURABILITY_DAMAGE_ALL", "CREATE", "SUMMON", "RESURRECT", "EMPOWER_START", "EMPOWER_END">>

\* the first arm whose guard x.ends_with(arm) holds, "" when none does
SuffixArm(event_type) ==
    IF \E i \in 1..Len(SuffixArms) : ends_with(event_type, SuffixArms[i])
    THEN SuffixArms[CHOOSE i \in 1..Len(SuffixArms) : ends_with(event_type, SuffixArms[i]) /\ \A j \in 1..(i - 1) : ~ends_with(event_type, SuffixArms[j])]
    ELSE ""

\* match line[2] { "-1" => None, x => Some(parse_num(x)?) }
overkill_parse(x) == IF x = "-1" THEN Ok(None) ELSE SomeOf(parse_num_u64(x))

overkillAt(line, i) == IF i < Len(line) THEN overkill_parse(line[i + 1]) ELSE OutOfBounds

\* an absent power type taken as the first of the enumeration's codes
power_type_defaulted(x) == IF PowerType_parse(x) = Ok(None) THEN Ok("Mana") ELSE with_context(PowerType_parse(x), "Invalid power type")

\* PowerType::parse(x)?.with_context(..)?
power_type_required(x) == with_context(PowerType_parse(x), "Invalid power type")

powerAt(line, i) == IF i < Len(line) THEN power_type_required(line[i + 1]) ELSE OutOfBounds

\* .unwrap() on an Option: None panics
unwrap(r) == IF ~IsOk(r) THEN r ELSE IF r.val.some THEN Ok(r.val.v) ELSE Panic("called Option::unwrap() on a None value")

\* Actor::parse(&line[..4])?.unwrap()
actor_unwrap(line) == unwrap(ActorAt(line, 0))

\* amount, base amount and critical read for every miss type
Missed_of_every_type(miss_type, line) ==
    Build([shape |-> Ok("Missed"), miss_type |-> miss_type, offhand |-> boolAt(line, 1),
           amount_missed |-> u64At(line, 2), base_amount |-> u64At(line, 3), critical |-> boolAt(line, 4)],
          <<"miss_type", "amount_missed", "base_amount", "critical", "offhand">>)

\* the Missed arm: amount, base amount and critical are read for an ABSORB only
Missed_of(miss_type, line) ==
    IF IsOk(miss_type) /\ miss_type.val = "Absorb"
    THEN Build([shape |-> Ok("Missed"), miss_type |-> miss_type, offhand |-> boolAt(line, 1),
                amount_missed |-> u64At(line, 2), base_amount |-> u64At(line, 3), critical |-> boolAt(line, 4)],
               <<"miss_type", "amount_missed", "base_amount", "critical", "offhand">>)
    ELSE Build([shape |-> Ok("Missed"), miss_type |-> miss_type, offhand |-> boolAt(line, 1),
                amount_missed |-> Ok(0), base_amount |-> Ok(0), critical |-> Ok(FALSE)],
               <<"miss_type", "offhand">>)

\* AuraApplied / AuraRemoved: the amount is read when there is a second field
aura_amount(line) == IF Len(line) < 2 THEN Ok(None) ELSE SomeOf(u64At(line, 1))

\* the arms of one field
Suffix_one(shape, field, r) == Build([shape |-> Ok(shape)] @@ (field :> r), <<field>>)

\* the arms made of a spell and an aura type
Suffix_spell_aura(shape, line) ==
    Build([shape |-> Ok(shape), spell_info |-> SpellInfoAt(line, 0), aura_type |-> auraAt(line, 3)],
          <<"spell_info", "aura_type">>)

\* the body of the arm taken
Suffix_match(arm, line) ==
    CASE arm = "DAMAGE" ->
           Build([shape |-> Ok("Damage"), amount |-> u64At(line, 0), base_amount |-> u64At(line, 1),
                  overkill |-> overkillAt(line, 2), school |-> schoolAt(line, 3), resisted |-> u64At(line, 4),
                  blocked |-> u64At(line, 5), absorbed |-> i64At(line, 6), critical |-> boolAt(line, 7),
                  glancing |-> boolAt(line, 8), crushing |-> boolAt(line, 9)],
                 <<"amount", "base_amount", "overkill", "school", "resisted", "blocked", "absorbed", "critical",
                   "glancing", "crushing">>)
      [] arm = "DAMAGE_LANDED" ->
           Build([shape |-> Ok("DamageLanded"), amount |-> u64At(line, 0), base_amount |-> u64At(line, 1),
                  overkill |-> overkillAt(line, 2), school |-> schoolAt(line, 3), resisted |-> u64At(line, 4),
                  blocked |-> u64At(line, 5), absorbed |-> u64At(line, 6), critical |-> boolAt(line, 7),
                  glancing |-> boolAt(line, 8), crushing |-> boolAt(line, 9)],
                 <<"amount", "base_amount", "overkill", "school", "resisted", "blocked", "absorbed", "critical",
                   "glancing", "crushing">>)
      [] arm = "MISSED" -> Missed_of(IF 0 < Len(line) THEN MissType_parse(line[1]) ELSE OutOfBounds, line)
      [] arm = "HEAL" ->
           Build([shape |-> Ok("Heal"), amount |-> u64At(line, 0), base_amount |-> u64At(line, 1),
                  overhealing |-> u64At(line, 2), absorbed |-> u64At(line, 3), critical |-> boolAt(line, 4)],
                 <<"amount", "base_amount", "overhealing", "absorbed", "critical">>)
      [] arm = "HEAL_ABSORBED" ->
           Build([shape |-> Ok("HealAbsorbed"), actor |-> ActorAt(line, 0), spell_info |-> SpellInfoAt(line, 4),
                  absorbed_amount |-> u64At(line, 7), total_amount |-> u64At(line, 8)],
                 <<"actor", "spell_info", "absorbed_amount", "total_amount">>)
      [] arm = "ABSORBED" ->
           Build([shape |-> Ok("Absorbed"), absorb_caster |-> actor_unwrap(line),
                  absorb_spell_info |-> SpellInfoAt(line, 4), absorbed_amount |-> i64At(line, 7),
                  base_amount |-> u64At(line, 8), critical |-> boolAt(line, 9)],
                 <<"absorb_caster", "absorb_spell_info", "absorbed_amount", "base_amount", "critical">>)
      [] arm = "ENERGIZE" ->
           Build([shape |-> Ok("Energize"), amount |-> f32At(line, 0), over_energize |-> f32At(line, 1),
                  power_type |-> powerAt(line, 2), max_power |-> u64At(line, 3)],
                 <<"amount", "over_energize", "power_type", "max_power">>)
      [] arm = "DRAIN" ->
           Build([shape |-> Ok("Drain"), amount |-> u64At(line, 0), power_type |-> powerAt(line, 1),
                  extra_amount |-> u64At(line, 2), max_power |-> u64At(line, 3)],
                 <<"amount", "power_type", "extra_amount", "max_power">>)
      [] arm = "LEECH" ->
           Build([shape |-> Ok("Leech"), amount |-> u64At(line, 0), power_type |-> powerAt(line, 1),
                  extra_amount |-> u64At(line, 2)],
                 <<"amount", "power_type", "extra_amount">>)
      [] arm = "EMPOWER_INTERRUPT" -> Suffix_one("EmpowerInterrupt", "empowered_rank", u64At(line, 0))
      [] arm = "INTERRUPT" -> Suffix_one("Interrupt", "spell_info", SpellInfoAt(line, 0))
      [] arm = "DISPEL" -> Suffix_spell_aura("Dispel", line)
      [] arm = "DISPEL_FAILED" -> Suffix_one("DispelFailed", "spell_info", SpellInfoAt(line, 0))
      [] arm = "STOLEN" -> Suffix_spell_aura("Stolen", line)
      [] arm = "EXTRA_ATTACKS" -> Suffix_one("ExtraAttacks", "amount", u64At(line, 0))
      [] arm = "AURA_APPLIED" ->
           Build([shape |-> Ok("AuraApplied"), aura_type |-> auraAt(line, 0), amount |-> aura_amount(line)],
                 <<"amount", "aura_type">>)
      [] arm = "AURA_REMOVED" ->
           Build([shape |-> Ok("AuraRemoved"), aura_type |-> auraAt(line, 0), amount |-> aura_amount(line)],
                 <<"amount", "aura_type">>)
      [] arm = "AURA_APPLIED_DOSE" ->
           Build([shape |-> Ok("AuraAppliedDose"), aura_type |-> auraAt(line, 0), amount |-> u64At(line, 1)],
                 <<"aura_type", "amount">>)
      [] arm = "AURA_REMOVED_DOSE" ->
           Build([shape |-> Ok("AuraRemovedDose"), aura_type |-> auraAt(line, 0), amount |-> u64At(line, 1)],
                 <<"aura_type", "amount">>)
      [] arm = "AURA_REFRESH" -> Suffix_one("AuraRefresh", "aura_type", auraAt(line, 0))
      [] arm = "AURA_BROKEN" -> Suffix_one("AuraBroken", "aura_type", auraAt(line, 0))
      [] arm = "AURA_BROKEN_SPELL" -> Suffix_spell_aura("AuraBrokenSpell", line)
      [] arm = "CAST_START" -> Ok([shape |-> "CastStart"])
      [] arm = "CAST_SUCCESS" -> Ok([shape |-> "CastSuccess"])
      [] arm = "CAST_FAILED" -> Suffix_one("CastFailed", "failed_type", textAt(line, 0))
      [] arm = "INSTAKILL" -> Suffix_one("Instakill", "unconscious_on_death", boolAt(line, 0))
      [] arm = "DURABILITY_DAMAGE" -> Ok([shape |-> "DurabilityDamage"])
      [] arm = "DURABILITY_DAMAGE_ALL" -> Ok([shape |-> "DurabilityDamageAll"])
      [] arm = "CREATE" -> Ok([shape |-> "Create"])
      [] arm = "SUMMON" -> Ok([shape |-> "Summon"])
      [] arm = "RESURRECT" -> Ok([shape |-> "Resurrect"])
      [] arm = "EMPOWER_START" -> Ok([shape |-> "EmpowerStart"])
      [] arm = "EMPOWER_END" -> Suffix_one("EmpowerEnd", "empowered_rank", u64At(line, 0))
      [] OTHER -> Err("Unknown suffix")

Suffix_parse(event_type, line) == Suffix_match(SuffixArm(event_type), line)

\* Suffix::parse(event_type, &line[a..])
SuffixFrom(event_type, line, a) == IF a <= Len(line) THEN Suffix_parse(event_type, SubSeq(line, a + 1, Len(line))) ELSE OutOfRange

advanced_suffixes == <<"DAMAGE", "DAMAGE_LANDED", "HEAL", "CAST_SUCCESS", "ENERGIZE", "DRAIN", "LEECH", "STOLEN", "CAST_SUCCESS">>

\* the deny-list without SUMMON
non_advanced_suffixes_without_summon ==
    <<"AURA_APPLIED", "AURA_REMOVED", "MISSED", "HEAL_ABSORBED", "ABSORBED", "EMPOWER_INTERRUPT", "INTERRUPT",
      "DISPEL_FAILED", "EXTRA_ATTACKS", "AURA_APPLIED_DOSE", "AURA_REMOVED_DOSE", "AURA_REFRESH", "AURA_BROKEN",
      "AURA_BROKEN_SPELL", "CAST_START", "CAST_FAILED", "INSTAKILL", "DURABILITY_DAMAGE", "DURABILITY_DAMAGE_ALL",
      "CREATE", "RESURRECT", "EMPOWER_START", "EMPOWER_END", "DISPEL">>

non_advanced_suffixes == <<"AURA_APPLIED", "AURA_REMOVED", "MISSED", "HEAL_ABSORBED", "ABSORBED", "EMPOWER_INTERRUPT",
                           "INTERRUPT", "DISPEL_FAILED", "EXTRA_ATTACKS", "AURA_APPLIED_DOSE", "AURA_REMOVED_DOSE",
                           "AURA_REFRESH", "AURA_BROKEN", "AURA_BROKEN_SPELL", "CAST_START", "CAST_FAILED", "INSTAKILL",
                           "DURABILITY_DAMAGE", "DURABILITY_DAMAGE_ALL", "CREATE", "SUMMON", "RESURRECT",
                           "EMPOWER_START", "EMPOWER_END", "DISPEL">>

has_advanced_params(event_type) ==
    IF \E i \in 1..Len(advanced_suffixes) : ends_with(event_type, advanced_suffixes[i]) THEN Ok(TRUE)
    ELSE IF \E i \in 1..Len(non_advanced_suffixes) : ends_with(event_type, non_advanced_suffixes[i]) THEN Ok(FALSE)
    ELSE Err("Unknown suffix")

\* ------------------------------------------------------------------------
\* Regular expressions (the regex crate, as src/utils.rs and
\* src/components/combatant.rs use it).  A pattern is a sequence of nodes; a
\* match is the first one in the order of the pattern's preferences
\* (leftmost-first): a greedy repetition tries one more round before the
\* rest of the pattern, a lazy one the rest first.
\* ------------------------------------------------------------------------
Digits == {"0", "1", "2", "3", "4", "5", "6", "7", "8", "9"}

\* a literal character
Lit(c) == [t |-> "class", set |-> {c}]

\* [..]: one character of a class
Cls(set) == [t |-> "class", set |-> set]

\* . : any character
AnyChar == [t |-> "any"]

\* sub* and sub*?; a repetition of more than one node is greedy
Star(sub, greedy) == [t |-> "star", sub |-> sub, greedy |-> greedy]

\* sub+ and sub+?
Plus(sub, greedy) == sub \o <<Star(sub, greedy)>>

\* sub?
Opt(sub) == [t |-> "opt", sub |-> sub]

\* either end of a capture group
Mark == [t |-> "mark"]

NoMatch == [ok |-> FALSE]

\* the first alternative when it matches, else the second
OrElse(a, b) == IF a.ok THEN a ELSE b

Least(S) == CHOOSE j \in S : \A k \in S : j <= k

\* the one-character node x takes the character at position j of s
takes(x, s, j) == j <= Len(s) /\ (x.t = "any" \/ Ch(s, j) \in x.set)

\* the first position from i on that x does not take
run_end(x, s, i) == Least({j \in i..(Len(s) + 1) : ~takes(x, s, j)})

\* a repetition of one character: of the matches of the rest of the pattern
\* tried, each with the position it starts at, the one after the most rounds
\* for a greedy repetition and after the fewest for a lazy one
preferred(tried, greedy) ==
    IF tried = {} THEN NoMatch
    ELSE (CHOOSE p \in tried : \A q \in tried : IF greedy THEN q[1] <= p[1] ELSE p[1] <= q[1])[2]

\* the match of the pattern re at position i of s: the position after it and
\* the positions of the marks passed
RECURSIVE matches_at(_, _, _, _)
matches_at(re, s, i, caps) ==
    IF Len(re) = 0 THEN [ok |-> TRUE, end |-> i, caps |-> caps]
    ELSE CASE Head(re).t \in {"class", "any"} ->
                IF takes(Head(re), s, i) THEN matches_at(Tail(re), s, i + 1, caps) ELSE NoMatch
           [] Head(re).t = "opt" ->
                OrElse(matches_at(Head(re).sub \o Tail(re), s, i, caps), matches_at(Tail(re), s, i, caps))
           [] Head(re).t = "star" /\ Len(Head(re).sub) = 1 ->
                preferred({p \in {<<j, matches_at(Tail(re), s, j, caps)>> : j \in i..run_end(Head(re).sub[1], s, i)} :
                           p[2].ok}, Head(re).greedy)
           [] Head(re).t = "star" /\ Len(Head(re).sub) > 1 ->
                OrElse(matches_at(Head(re).sub \o re, s, i, caps), matches_at(Tail(re), s, i, caps))
           [] Head(re).t = "mark" -> matches_at(Tail(re), s, i, Append(caps, i))

\* the positions of s at which the pattern matches
starts(re, s) == {j \in 1..Len(s) : matches_at(re, s, j, <<>>).ok}

\* the matches that do not overlap, leftmost first, among the positions
\* from; m is the match at j, the least of them
RECURSIVE find_among(_, _, _)
RECURSIVE take(_, _, _, _, _)
take(re, s, from, j, m) ==
    <<[from |-> j, to |-> m.end - 1, caps |-> m.caps]>> \o find_among(re, s, {k \in from : k >= m.end})

find_among(re, s, from) ==
    IF from = {} THEN <<>> ELSE take(re, s, from, Least(from), matches_at(re, s, Least(from), <<>>))

\* Regex::find_iter / captures_iter
find_iter(re, s) == find_among(re, s, starts(re, s))

\* m.as_str() of every match
as_strs(s, ms) == [k \in 1..Len(ms) |-> SubSeq(s, ms[k].from, ms[k].to)]

\* the capture groups of one match: c.iter().skip(1)
groups(s, m) == [k \in 1..(Len(m.caps) \div 2) |-> SubSeq(s, m.caps[2 * k - 1], m.caps[2 * k] - 1)]

\* Regex::replace_all(s, ""): s from position i on without the matches ms
RECURSIVE remove_all(_, _, _)
remove_all(s, ms, i) ==
    IF Len(ms) = 0 THEN SubSeq(s, i, Len(s))
    ELSE SubSeq(s, i, Head(ms).from - 1) \o remove_all(s, Tail(ms), Head(ms).to + 1)

\* utils::match_replace_all: (matches, s without them); ms is find_iter's result
cut_matches(s, ms) == [matches |-> as_strs(s, ms), rest |-> remove_all(s, ms, 1)]

match_replace_all(re, s) == cut_matches(s, find_iter(re, s))

\* ------------------------------------------------------------------------
\* Combatant info (src/components/combatant.rs)
\* ------------------------------------------------------------------------
\* (\[.*?]),
re_sections == <<Mark, Lit("["), Star(<<AnyChar>>, FALSE), Lit("]"), Mark, Lit(",")>>

\* \([\d,?]+\),
re_pvp == <<Lit("(")>> \o Plus(<<Cls(Digits \cup {",", "?"})>>, TRUE) \o <<Lit(")"), Lit(",")>>

\* \(((?:\d+,?)+)\)
re_talent ==
    <<Lit("("), Mark>> \o Plus(Plus(<<Cls(Digits)>>, TRUE) \o <<Opt(<<Lit(",")>>)>>, TRUE) \o <<Mark, Lit(")")>>

\* (\(.*?\),?)
re_item_list == <<Mark, Lit("("), Star(<<AnyChar>>, FALSE), Lit(")"), Opt(<<Lit(",")>>), Mark>>

\* (\d+),(\d+),(\(.*?\),?)(\(.*?\),?)(\(.*?\),?)
re_item ==
    <<Mark>> \o Plus(<<Cls(Digits)>>, TRUE) \o <<Mark, Lit(","), Mark>> \o Plus(<<Cls(Digits)>>, TRUE)
        \o <<Mark, Lit(",")>> \o re_item_list \o re_item_list \o re_item_list

\* s[1..s.len() - cut]: the slice panics when it ends before it starts
inner(s, cut) == IF Len(s) - cut < 1 THEN OutOfRange ELSE Ok(SubSeq(s, 2, Len(s) - cut))

\* .split(',').map(parse_num).collect::<Result<Vec<u64>>>() of the parts
nums_of(parts) == Collect([k \in 1..Len(parts) |-> parse_num_u64(parts[k])])

\* s[1..s.len() - cut].split(',').map(parse_num).collect(); body is the slice
ids_of(body) == IF IsOk(body) THEN nums_of(split(body.val, ",")) ELSE body

ids_inside(s, cut) == ids_of(inner(s, cut))

\* line[a..b] handed to a decoder of u64 fields that reads its first n fields
\* in order: the slice, then line[0], line[1], ..
nums_at(line, a, b, n) ==
    IF a <= b /\ b <= Len(line) THEN Collect([k \in 1..n |-> u64At(SubSeq(line, a + 1, b), k - 1)]) ELSE OutOfRange

\* CharacterStats::parse(&line[2..23]): 21 numbers, strength to armor
CharacterStats_parse(line5) == nums_at(line5, 2, 23, 21)

\* PVPStats::parse(&line[23..]): honor_level, season, rating, tier
PVPStats_parse(line5) == nums_at(line5, 23, Len(line5), 4)

Faction_parse(s) == IF s = "0" THEN Ok("Horde") ELSE IF s = "1" THEN Ok("Alliance") ELSE Err("Failed to parse Faction")

factionAt(line, i) == IF i < Len(line) THEN Faction_parse(line[i + 1]) ELSE OutOfBounds

\* the conversion left out: a tuple of any length passes
four_ids_unchecked(ids) == ids

\* .as_slice().try_into().with_context(..): a [u64; 4] of exactly four ids
four_ids(ids) == IF ~IsOk(ids) THEN ids ELSE IF Len(ids.val) = 4 THEN ids ELSE Err("Incorrect number of ids")

\* PVPTalents::parse on "(a,b,c,d),"
PVPTalents_parse(s) == four_ids(ids_inside(s, 2))

\* ensure!(parsed.len() == 3, ..) and the record
ClassTalent_of(parsed) ==
    IF ~IsOk(parsed) THEN parsed
    ELSE IF Len(parsed.val) # 3 THEN Err("incorrect numer of values, expected 3")
    ELSE Ok([node_id |-> parsed.val[1], entry_id |-> parsed.val[2], rank |-> parsed.val[3]])

\* ClassTalent::parse on "(a,b,c)"
ClassTalent_parse(s) == ClassTalent_of(ids_inside(s, 1))

\* every match of the pattern decoded, the first failure returned
ClassTalent_each(found) == Collect([k \in 1..Len(found) |-> ClassTalent_parse(found[k])])

ClassTalent_parse_vec(s) == ClassTalent_each(as_strs(s, find_iter(re_talent, s)))

\* parts of s[1..s.len() - 2].split(','), read at 0, 1 and 2
Enchant_of(parts) ==
    Build([permanent_id |-> u64At(parts, 0), temp_id |-> u64At(parts, 1), on_use_id |-> u64At(parts, 2)],
          <<"permanent_id", "temp_id", "on_use_id">>)

Enchant_inner(body) == IF IsOk(body) THEN SomeOf(Enchant_of(split(body.val, ","))) ELSE body

Enchant_parse(s) == IF s = "()," THEN Ok(None) ELSE Enchant_inner(inner(s, 2))

\* EquippedItem::parse: bonus_ids and gem_ids are read ahead of the record
EquippedItem_parse(parts) ==
    IF Len(parts) # 5 THEN Err("Not enough sections: expected 5")
    ELSE IF parts[1] = "0" THEN Ok(None)
    ELSE SomeOf(Build([bonus_ids |-> IF parts[4] = "()," THEN Ok(<<>>) ELSE ids_inside(parts[4], 2),
                       gem_ids |-> IF parts[5] = "()" THEN Ok(<<>>) ELSE ids_inside(parts[5], 1),
                       item_id |-> parse_num_u64(parts[1]), ilvl |-> parse_num_u64(parts[2]),
                       enchant |-> Enchant_parse(parts[3])],
                      <<"bonus_ids", "gem_ids", "item_id", "ilvl", "enchant">>))

\* .into_iter().flatten(): the slots that hold an item
RECURSIVE flatten(_)
flatten(opts) ==
    IF Len(opts) = 0 THEN <<>>
    ELSE (IF Head(opts).some THEN <<Head(opts).v>> ELSE <<>>) \o flatten(Tail(opts))

filled(items) == IF IsOk(items) THEN Ok(flatten(items.val)) ELSE items

EquippedItem_each(s, found) == filled(Collect([k \in 1..Len(found) |-> EquippedItem_parse(groups(s, found[k]))]))

EquippedItem_parse_vec(s) == EquippedItem_each(s, find_iter(re_item, s))

\* InterestingAura::parse on one chunk
InterestingAura_parse(parts) ==
    IF Len(parts) # 2 THEN Err("Not enough parts for InterstingAura: expected 2")
    ELSE Build([caster |-> GUID_parse(parts[1]), aura_id |-> parse_num_u64(parts[2])], <<"caster", "aura_id">>)

\* .chunks(2): the k-th pair of parts, the last one short when the count is odd
chunk2(parts, k) == SubSeq(parts, 2 * k - 1, Min(2 * k, Len(parts)))

InterestingAura_each(parts) ==
    Collect([k \in 1..((Len(parts) + 1) \div 2) |-> InterestingAura_parse(chunk2(parts, k))])

InterestingAura_inner(body) == IF IsOk(body) THEN InterestingAura_each(split(body.val, ",")) ELSE body

InterestingAura_parse_vec(s) == IF s = "[]," THEN Ok(<<>>) ELSE InterestingAura_inner(inner(s, 2))

\* Ok(Self {..}) of CombatantInfo::parse
CombatantInfo_of(matches, matches_pvp, line5) ==
    Build([shape |-> Ok("CombatantInfo"), guid |-> unwrap(guidAt(line5, 0)), faction |-> factionAt(line5, 1),
           stats |-> CharacterStats_parse(line5), class_talents |-> ClassTalent_parse_vec(matches[1]),
           pvp_talents |-> PVPTalents_parse(matches_pvp[1]), equipped_items |-> EquippedItem_parse_vec(matches[2]),
           interesting_auras |-> InterestingAura_parse_vec(matches[3]), pvp_stats |-> PVPStats_parse(line5)],
          <<"guid", "faction", "stats", "class_talents", "pvp_talents", "equipped_items", "interesting_auras",
            "pvp_stats">>)

\* the second ensure!: one (...) section; round is match_replace_all's result
CombatantInfo_round(matches, round) ==
    IF Len(round.matches) # 1 THEN Err("incorrect number of (...) sections found. Expected 1")
    ELSE CombatantInfo_of(matches, round.matches, split(round.rest, ","))

\* the first ensure!: three [...] sections; square is match_replace_all's result
CombatantInfo_square(square) ==
    IF Len(square.matches) # 3 THEN Err("incorrect number of [...] sections found. Expected 3")
    ELSE CombatantInfo_round(square.matches, match_replace_all(re_pvp, square.rest))

CombatantInfo_parse(line) == CombatantInfo_square(match_replace_all(re_sections, join(line, ",")))

\* ------------------------------------------------------------------------
\* Special-event dispatcher (src/components/special.rs)
\* ------------------------------------------------------------------------
NoneSentinel == [shape |-> "NoneSentinel"]

\* joined[1..joined.len() - 1].split(',').map(parse_num).collect()
affix_ids_joined(joined) ==
    IF Len(joined) < 2 THEN OutOfRange
    ELSE LET parts == split(SubSeq(joined, 2, Len(joined) - 1), ",")
         IN Collect([i \in 1..Len(parts) |-> parse_num_u64(parts[i])])

\* line[4..].join(",") and the list read from it
affix_ids_parse(rest) == affix_ids_joined(join(rest, ","))

affixIdsFrom(line, a) == IF a <= Len(line) THEN affix_ids_parse(SubSeq(line, a + 1, Len(line))) ELSE OutOfRange

\* EnchantApplied / EnchantRemoved
Special_enchant(shape, line) ==
    Build([shape |-> Ok(shape), source |-> ActorAt(line, 0), target |-> ActorAt(line, 4), spell_name |-> textAt(line, 8),
           item_id |-> u64At(line, 9), item_name |-> textAt(line, 10)],
          <<"source", "target", "spell_name", "item_id", "item_name">>)

\* PartyKill / UnitDied / UnitDestroyed / UnitDissipates
Special_death(shape, line) ==
    Build([shape |-> Ok(shape), source |-> ActorAt(line, 0), target |-> ActorAt(line, 4),
           unconscious_on_death |-> boolAt(line, 8)],
          <<"source", "target", "unconscious_on_death">>)

\* match GUID::parse(line[2]): g2 is its result
Special_emote(g2, line) ==
    IF g2.tag = "Panic" THEN g2
    ELSE IF IsOk(g2)
    THEN Build([shape |-> Ok("EmoteEnvironmental"), source_guid |-> guidAt(line, 0), source_name |-> textAt(line, 1),
                target_guid |-> g2, target_name |-> textAt(line, 3), text |-> textAt(line, 4)],
               <<"source_guid", "source_name", "target_name", "text">>)
    ELSE Build([shape |-> Ok("EmoteStandard"), actor |-> ActorAt(line, 0), text |-> textAt(line, 4)],
               <<"actor", "text">>)

Special_parse(event_type, line) ==
    CASE event_type = "ENCHANT_APPLIED" -> Special_enchant("EnchantApplied", line)
      [] event_type = "ENCHANT_REMOVED" -> Special_enchant("EnchantRemoved", line)
      [] event_type = "PARTY_KILL" -> Special_death("PartyKill", line)
      [] event_type = "UNIT_DIED" -> Special_death("UnitDied", line)
      [] event_type = "UNIT_DESTROYED" -> Special_death("UnitDestroyed", line)
      [] event_type = "UNIT_DISSIPATES" -> Special_death("UnitDissipates", line)
      [] event_type = "COMBAT_LOG_VERSION" ->
           Build([shape |-> Ok("CombatLogInfo"), log_version |-> u64At(line, 0), advanced_log_enabled |-> boolAt(line, 2),
                  build_version |-> textAt(line, 4), project_id |-> u64At(line, 6)],
                 <<"log_version", "advanced_log_enabled", "build_version", "project_id">>)
      [] event_type = "ZONE_CHANGE" ->
           Build([shape |-> Ok("ZoneChange"), instance_id |-> u64At(line, 0), zone_name |-> textAt(line, 1),
                  id |-> u64At(line, 2)],
                 <<"instance_id", "zone_name", "id">>)
      [] event_type = "MAP_CHANGE" ->
           Build([shape |-> Ok("MapChange"), ui_map_id |-> u64At(line, 0), ui_map_name |-> textAt(line, 1),
                  x0 |-> f32At(line, 2), x1 |-> f32At(line, 3), y0 |-> f32At(line, 4), y1 |-> f32At(line, 5)],
                 <<"ui_map_id", "ui_map_name", "x0", "x1", "y0", "y1">>)
      [] event_type = "ENCOUNTER_START" ->
           Build([shape |-> Ok("EncounterStart"), encounter_id |-> u64At(line, 0), encounter_name |-> textAt(line, 1),
                  difficulty_id |-> u64At(line, 2), group_size |-> u64At(line, 3), instance_id |-> u64At(line, 4)],
                 <<"encounter_id", "encounter_name", "difficulty_id", "group_size", "instance_id">>)
      [] event_type = "ENCOUNTER_END" ->
           Build([shape |-> Ok("EncounterEnd"), encounter_id |-> u64At(line, 0), encounter_name |-> textAt(line, 1),
                  difficulty_id |-> u64At(line, 2), group_size |-> u64At(line, 3), success |-> boolAt(line, 4),
                  fight_time |-> u64At(line, 5)],
                 <<"encounter_id", "encounter_name", "difficulty_id", "group_size", "success", "fight_time">>)
      [] event_type = "WORLD_MARKER_PLACED" ->
           Build([shape |-> Ok("WorldMarkerPlaced"), instance_id |-> u64At(line, 0), marker |-> u64At(line, 1),
                  x |-> f32At(line, 2), y |-> f32At(line, 3)],
                 <<"instance_id", "marker", "x", "y">>)
      [] event_type = "WORLD_MARKER_REMOVED" ->
           Build([shape |-> Ok("WorldMarkerRemoved"), marker |-> u64At(line, 0)], <<"marker">>)
      [] event_type = "EMOTE" -> Special_emote(guidAt(line, 2), line)
      [] event_type = "COMBATANT_INFO" -> CombatantInfo_parse(line)
      [] event_type = "CHALLENGE_MODE_START" ->
           Build([shape |-> Ok("ChallengeModeStart"), zone_name |-> textAt(line, 0), instance_id |-> u64At(line, 1),
                  challenge_mode_id |-> u64At(line, 2), keystone_level |-> u64At(line, 3),
                  affix_ids |-> affixIdsFrom(line, 4)],
                 <<"zone_name", "instance_id", "challenge_mode_id", "keystone_level", "affix_ids">>)
      [] event_type = "CHALLENGE_MODE_END" ->
           Build([shape |-> Ok("ChallengeModeEnd"), instance_id |-> u64At(line, 0), success |-> boolAt(line, 1),
                  keystone_level |-> u64At(line, 2), total_time |-> u64At(line, 3)],
                 <<"instance_id", "success", "keystone_level", "total_time">>)
      [] OTHER -> Ok(NoneSentinel)

\* ------------------------------------------------------------------------
\* Event assembler (src/components/events.rs)
\* ------------------------------------------------------------------------
specially_named_events == [DAMAGE_SPLIT |-> "SPELL_DAMAGE", DAMAGE_SHIELD |-> "SPELL_DAMAGE",
                           DAMAGE_SHIELD_MISSED |-> "SPELL_MISSED",
                           SWING_DAMAGE_LANDED_SUPPORT |-> "SPELL_DAMAGE_SUPPORT"]

\* no remapping: every name dispatched as itself
dispatch_name_unmapped(event_type) == event_type

\* the name the standard pipeline dispatches on (events.rs:55-58)
dispatch_name(event_type) == IF event_type \in DOMAIN specially_named_events THEN specially_named_events[event_type] ELSE event_type

\* the match of events.rs:71-77.  && binds tighter than ||, so the numeric
\* test on line[8] guards the SPELL_ABSORBED_SUPPORT alternative only.
to_consume(e, line) ==
    IF e = "SPELL_ABSORBED" THEN Ok(0)
    ELSE IF e = "SPELL_ABSORBED_SUPPORT"
    THEN (IF 8 >= Len(line) THEN OutOfBounds
          ELSE IF ~IsOk(u64_from_str(line[9])) THEN Ok(0) ELSE entries_to_consume(e))
    ELSE entries_to_consume(e)

\* the forward order of every other event: prefix, then the advanced block
env_damage_layout_forward == [prefix_at |-> 8, advanced_at |-> 9, offset |-> 26]

\* the slices of the ENVIRONMENTAL_DAMAGE branch (events.rs:64-70):
\* &line[25..26] for the prefix, &line[8..25] for the advanced block, and
\* the suffix from 26 on
env_damage_layout == [prefix_at |-> 25, advanced_at |-> 8, offset |-> 26]

NoCursor == [entered |-> FALSE]

\* Ok(Self::Standard {..}) and the cursor: every step's result.  The cursor
\* counts as entered once both actor blocks are decoded.
Standard_record(name, e, source, target, consume, prefix, has_adv, advanced, offset, suffix) ==
    [outcome |-> Build([kind |-> Ok("Standard"), name |-> Ok(name), source |-> source, target |-> target,
                        prefix |-> prefix, advanced_params |-> advanced, suffix |-> suffix],
                       <<"source", "target", "prefix", "advanced_params", "suffix">>),
     cursor |-> IF IsOk(source) /\ IsOk(target)
                THEN [entered |-> TRUE, name |-> name, dispatch |-> e, consume |-> consume, prefix |-> prefix,
                      has_adv |-> has_adv, advanced |-> advanced, offset |-> offset, suffix |-> suffix]
                ELSE NoCursor]

\* the two actor blocks, then Suffix::parse(event_type, &line[offset..])
Standard_assemble(name, e, line, consume, prefix, has_adv, advanced, offset) ==
    Standard_record(name, e, ActorAt(line, 0), ActorAt(line, 4), consume, prefix, has_adv, advanced, offset,
                    SuffixFrom(e, line, offset))

\* the ENVIRONMENTAL_DAMAGE branch.  It calls neither entries_to_consume nor
\* has_advanced_params: consume and has_adv stand for the branch's fixed
\* width 1 and its Some(..).
Standard_env(name, e, line) ==
    Standard_assemble(name, e, line, Ok(1),
                      PrefixAt(e, line, env_damage_layout.prefix_at, env_damage_layout.prefix_at + 1), Ok(TRUE),
                      SomeOf(AdvancedParamsAt(line, env_damage_layout.advanced_at, env_damage_layout.advanced_at + 17)),
                      env_damage_layout.offset)

\* the forward branch with the suffix read from the start of the advanced
\* block
Standard_at_overlapping(name, e, line, consume, has_adv, at) ==
    Standard_assemble(name, e, line, consume,
                      IF IsOk(consume) THEN PrefixAt(e, line, 8, at) ELSE consume, has_adv,
                      IF ~IsOk(has_adv) THEN has_adv
                      ELSE IF has_adv.val THEN SomeOf(AdvancedParamsAt(line, at, at + 17)) ELSE Ok(None),
                      at)

\* the forward branch from the prefix on; at is 8 + to_consume.  A failure
\* of to_consume or of has_advanced_params is the failure of the step it
\* belongs to.
Standard_at(name, e, line, consume, has_adv, at) ==
    Standard_assemble(name, e, line, consume,
                      IF IsOk(consume) THEN PrefixAt(e, line, 8, at) ELSE consume, has_adv,
                      IF ~IsOk(has_adv) THEN has_adv
                      ELSE IF has_adv.val THEN SomeOf(AdvancedParamsAt(line, at, at + 17)) ELSE Ok(None),
                      IF IsOk(has_adv) /\ has_adv.val THEN at + 17 ELSE at)

Standard_branch(name, e, line) ==
    IF name = "ENVIRONMENTAL_DAMAGE" THEN Standard_env(name, e, line)
    ELSE Standard_at(name, e, line, to_consume(e, line), has_advanced_params(e),
                     IF IsOk(to_consume(e, line)) THEN 8 + to_consume(e, line).val ELSE 8)

\* everything EventType::parse computes on the standard path: the outcome
\* and the cursor
StandardSteps(name, line) == Standard_branch(name, dispatch_name(name), line)

\* the match with an error of Special::parse falling through to the
\* standard path
EventType_match_fallthrough(special, event_type, line) ==
    IF IsOk(special) /\ special.val # NoneSentinel
    THEN [outcome |-> Ok([kind |-> "Special", name |-> event_type, details |-> special.val]), cursor |-> NoCursor]
    ELSE StandardSteps(event_type, line)

\* the match on the result of Special::parse
EventType_match(special, event_type, line) ==
    IF ~IsOk(special) THEN [outcome |-> special, cursor |-> NoCursor]
    ELSE IF special.val # NoneSentinel
    THEN [outcome |-> Ok([kind |-> "Special", name |-> event_type, details |-> special.val]), cursor |-> NoCursor]
    ELSE StandardSteps(event_type, line)

\* EventType::parse with its cursor
EventType_trace(event_type, line) == EventType_match(Special_parse(event_type, line), event_type, line)

EventType_parse(event_type, line) == EventType_trace(event_type, line).outcome

\* chrono's scan of one numeric item: skip leading whitespace, then one or
\* two digits.  [ok, val, rest]
ScanNum2(s) ==
    LET t == trim_start_matches(s, " ")
        n == IF Len(t) >= 2 /\ AllDigits(SubSeq(t, 1, 2), 10) THEN 2 ELSE IF Len(t) >= 1 /\ AllDigits(Ch(t, 1), 10) THEN 1 ELSE 0
    IN [ok |-> n > 0, val |-> IF n > 0 THEN DigitsVal(t, n, 10) ELSE 0, rest |-> SubSeq(t, n + 1, Len(t))]

\* a literal of the format string
ScanLit(r, c) == [ok |-> r.ok /\ starts_with(r.rest, c), val |-> r.val, rest |-> IF starts_with(r.rest, c) THEN SubSeq(r.rest, Len(c) + 1, Len(r.rest)) ELSE r.rest]

\* %.3f: nothing, or a dot and one or more digits, of which nine are kept
RECURSIVE DigitRun(_, _)
DigitRun(s, i) == IF i <= Len(s) /\ AllDigits(Ch(s, i), 10) THEN DigitRun(s, i + 1) ELSE i - 1

ScanFrac(s) ==
    LET n == DigitRun(s, 2)
        kept == SubSeq(s, 2, IF n > 10 THEN 10 ELSE n)
    IN IF ~starts_with(s, ".") THEN [ok |-> TRUE, val |-> 0, rest |-> s]
       ELSE IF n < 2 THEN [ok |-> FALSE, val |-> 0, rest |-> s]
       ELSE [ok |-> TRUE, val |-> DigitsVal(kept \o SubSeq("000000000", 1, 9 - Len(kept)), 9, 10), rest |-> SubSeq(s, n + 1, Len(s))]

DaysInMonth2024 == <<31, 29, 31, 30, 31, 30, 31, 31, 30, 31, 30, 31>>

\* NaiveDateTime::parse_from_str("2024/ " + date, "%Y/%_m/%d %H:%M:%S%.3f")
date_parse(date) ==
    LET month == ScanNum2(date)
        day == ScanNum2(ScanLit(month, "/").rest)
        hour == ScanNum2(trim_start_matches(day.rest, " "))
        minute == ScanNum2(ScanLit(hour, ":").rest)
        second == ScanNum2(ScanLit(minute, ":").rest)
        frac == ScanFrac(second.rest)
        scanned == /\ month.ok /\ ScanLit(month, "/").ok /\ day.ok /\ hour.ok /\ ScanLit(hour, ":").ok
                   /\ minute.ok /\ ScanLit(minute, ":").ok /\ second.ok /\ frac.ok /\ frac.rest = ""
        valid == /\ month.val \in 1..12
                 /\ day.val \in 1..DaysInMonth2024[month.val]
                 /\ hour.val \in 0..23
                 /\ minute.val \in 0..59
                 /\ second.val \in 0..60
    IN IF scanned /\ valid
       THEN Ok([year |-> 2024, month |-> month.val, day |-> day.val, hour |-> hour.val, minute |-> minute.val,
                second |-> second.val, nanos |-> frac.val])
       ELSE Err("Failed to parse date.")

PlaceholderTimestamp == [year |-> 2024, month |-> 1, day |-> 1, hour |-> 0, minute |-> 0, second |-> 0, nanos |-> 0]

\* Ok(Self {timestamp, event_type: EventType::parse(..)?}) with the cursor
Event_of(timestamp, traced) ==
    IF ~IsOk(timestamp) THEN [outcome |-> timestamp, cursor |-> NoCursor]
    ELSE [outcome |-> Build([timestamp |-> timestamp, event_type |-> traced.outcome], <<"timestamp", "event_type">>),
          cursor |-> traced.cursor]

\* the event type of the tuple (timestamp, event_type) of Event::parse
Event_name(line) == IF line[1] = "COMBAT_LOG_VERSION" THEN line[1] ELSE splitn2(line[1], "  ")[2]

\* the timestamp when every first field is split at the double space
Event_timestamp_always_split(line) ==
    IF Len(splitn2(line[1], "  ")) # 2 THEN Err("Error splitting date & event type")
    ELSE date_parse(splitn2(line[1], "  ")[1])

\* its timestamp
Event_timestamp(line) ==
    IF line[1] = "COMBAT_LOG_VERSION" THEN Ok(PlaceholderTimestamp)
    ELSE IF Len(splitn2(line[1], "  ")) # 2 THEN Err("Error splitting date & event type")
    ELSE date_parse(splitn2(line[1], "  ")[1])

\* Event::parse with the cursor of the standard path
Event_trace(line) ==
    IF Len(line) = 0 THEN [outcome |-> OutOfBounds, cursor |-> NoCursor]
    ELSE Event_of(Event_timestamp(line), EventType_trace(Event_name(line), Tail(line)))

Event_parse(line) == Event_trace(line).outcome

\* ------------------------------------------------------------------------
\* Inputs: the sample lines of the repository's tests (components/events.rs
\* tests), renamed, cut short and with single fields replaced.  Numerals
\* are cut to seven digits, so that every value, read in base 10 or in
\* base 16, stays below 2^31.
\* ------------------------------------------------------------------------
\* the sample lines, by the name of the test that holds them; spell_damage,
\* spell_absorbed and swing_absorbed are the support samples without the
\* supporter field and under the plain name
Sample ==
    [parse_event |->
        <<"4/6 14:09:44.867  SPELL_PERIODIC_HEAL", "Player-1393-077C088C", "Mubaku-BronzeDragonflight", "0x514", "0x0", "Creature-0-1469-2549-12530-210177-000011428F", "Tormented Ancient", "0xa18", "0x0", "8936", "Regrowth", "0x8", "Creature-0-1469-2549-12530-210177-000011428F", "0000000000000000", "5927873", "7468728", "0", "0", "5043", "0", "1", "0", "0", "0", "3295.44", "13209.11", "2232", "3.4506", "72", "2557", "2557", "0", "0", "nil">>,
     combat_log_version |->
        <<"COMBAT_LOG_VERSION", "20", "ADVANCED_LOG_ENABLED", "1", "BUILD_VERSION", "10.2.6", "PROJECT_ID", "1">>,
     swing_missed |->
        <<"4/6 14:02:07.362  SWING_MISSED", "Player-1335-0A264B4C", "Sonike-Ysondre", "0x514", "0x0", "Creature-0-1469-2549-12530-209333-000011428A", "Gnarlroot", "0x10a48", "0x0", "MISS", "1">>,
     aura_removed |->
        <<"4/6 14:09:44.867  SPELL_AURA_REMOVED", "Player-1084-0934CD1D", "Neversman-TarrenMill", "0x514", "0x0", "Player-1379-0814BAB7", "Kuro-Zul'jin", "0x40512", "0x4", "6673", "Battle Shout", "0x1", "BUFF">>,
     cast_success |->
        <<"4/6 14:09:44.867  SPELL_CAST_SUCCESS", "Player-1329-09AF0ACF", "Adamthebash-Ravencrest", "0x511", "0x0", "0000000000000000", "nil", "0x8000000", "0x8000000", "1850", "Dash", "0x1", "Player-1329-09AF0ACF", "0000000000000000", "846460", "846460", "16429", "15797", "5313", "94077", "3", "100", "100", "0", "3110.69", "13146.01", "2232", "0.7478", "486">>,
     parse_emote_player |->
        <<"4/11 22:19:57.499  EMOTE", "Creature-0-1465-2444-137-194909-00009853CD", "Feather-Ruffling Duck", "0000000000000000", "nil", "Take control of the Feather Ruffling Duck!">>,
     parse_emote_env |->
        <<"4/11 22:47:58.605  EMOTE", "Player-1329-09AF0ACF", "Adamthebash", "Player-1329-09AF0ACF", "Adamthebash", "Turn back! The Emerald Dream is clouding your mind...">>,
     parse_env_damage |->
        <<"4/11 22:42:01.100  ENVIRONMENTAL_DAMAGE", "0000000000000000", "nil", "0x8000000", "0x8000000", "Player-1329-070EBCFC", "Naladrem-Ravencrest", "0x518", "0x0", "Player-1329-070EBCFC", "0000000000000000", "815216", "866544", "14879", "1421", "5217", "0", "17", "109", "120", "0", "-931.46", "2546.12", "2133", "4.8479", "484", "Falling", "51328", "51329", "0", "1", "0", "0", "0", "nil", "nil", "nil">>,
     parse_bres |->
        <<"4/11 22:38:54.708  SPELL_CAST_SUCCESS", "Player-1329-09AF0ACF", "Adamthebash-Ravencrest", "0x511", "0x0", "Corpse-0-1465-2454-103-0-000018584E", "Unknown", "0x4228", "0x0", "20484", "Rebirth", "0x8", "Player-1329-09AF0ACF", "0000000000000000", "732698", "846460", "16347", "15718", "5632", "0", "0", "250000", "250000", "5000", "66.53", "3330.43", "2133", "4.7368", "486">>,
     parse_spell_negative |->
        <<"4/11 23:46:16.867  SPELL_DAMAGE", "Player-604-0A77B54A", "Sangrenar-Thrall", "0x514", "0x0", "Creature-0-1469-2549-12091-204931-0000186743", "Fyrakk", "0x10a48", "0x0", "203796", "Demon Blades", "0x20", "Creature-0-1469-2549-12091-204931-0000186743", "0000000000000000", "7585173", "7701312", "0", "-2435", "5043", "0", "3", "11", "100", "0", "-2161.04", "7142.32", "2238", "0.5034", "73", "16857", "6079", "-1", "127", "0", "0", "0", "1", "nil", "nil">>,
     parse_spell_negative2 |->
        <<"4/11 23:52:57.070  SPELL_DAMAGE", "Creature-0-1469-2549-12091-204931-0000186743", "Fyrakk", "0x10a48", "0x0", "Player-1390-0C4E032E", "Stillnixx-Hyjal", "0x514", "0x0", "423720", "Blazing Seed", "0x24", "Player-1390-0C4E032E", "0000000000000000", "306419", "834740", "2104", "22733", "3088", "0", "0", "196960", "250000", "0", "-2159.06", "7174.82", "2238", "4.5667", "481", "-14260", "144372", "-1", "36", "0", "0", "85562", "nil", "nil", "nil">>,
     parse_spell_dam_support |->
        <<"2/15 20:32:16.706  SPELL_DAMAGE_SUPPORT", "Player-1329-0A00AB32", "Twigsneak-Ravencrest", "0x514", "0x0", "Creature-0-4233-2549-14868-200927-00004E626C", "Smolderon", "0x10a48", "0x0", "410089", "Prescience", "0x40", "Creature-0-4233-2549-14868-200927-00004E626C", "0000000000000000", "1439613", "1442829", "0", "0", "5043", "0", "3", "3", "100", "0", "4043.26", "13109.35", "2233", "2.9862", "73", "163", "73", "-1", "8", "0", "0", "0", "1", "nil", "nil", "Player-1329-09E79FE9">>,
     parse_swing_dam_support |->
        <<"2/15 23:32:08.602  SWING_DAMAGE_LANDED_SUPPORT", "Player-1329-0A00AB32", "Twigsneak-Ravencrest", "0x514", "0x0", "Creature-0-4233-2549-14868-200927-00004E8F62", "Smolderon", "0x10a48", "0x0", "410089", "Prescience", "0x40", "Creature-0-4233-2549-14868-200927-00004E8F62", "0000000000000000", "2559702", "1442829", "0", "0", "5043", "0", "3", "81", "100", "0", "4076.52", "13078.54", "2233", "0.3173", "73", "0", "0", "-1", "1", "0", "0", "0", "1", "nil", "nil", "Player-1329-09E79FE9">>,
     parse_swing_dam_support_neg |->
        <<"2/15 23:23:01.449  SWING_DAMAGE_LANDED_SUPPORT", "Creature-0-4233-2549-14868-98035-00004E8EBA", "Dreadstalker", "0x2112", "0x0", "Creature-0-4233-2549-14868-200927-00004E8DDC", "Smolderon", "0x10a48", "0x0", "413984", "Shifting Sands", "0x40", "Creature-0-4233-2549-14868-200927-00004E8DDC", "0000000000000000", "7910938", "1442829", "0", "0", "5043", "0", "3", "100", "100", "0", "4065.42", "13115.50", "2233", "3.1067", "73", "-908", "-617", "-1", "1", "0", "0", "0", "1", "nil", "nil", "Player-1329-09E79FE9">>,
     parse_spell_absorbed_support |->
        <<"2/15 20:33:05.904  SPELL_ABSORBED_SUPPORT", "Creature-0-4233-2549-14868-200927-00004E626C", "Smolderon", "0x10a48", "0x0", "Player-1329-0A0800FA", "Foxgates-Ravencrest", "0x512", "0x0", "422578", "Searing Aftermath", "0x4", "Player-1329-0A0800FA", "Foxgates-Ravencrest", "0x512", "0x0", "413984", "Shifting Sands", "0x40", "1284", "37144", "nil", "Player-1329-09E79FE9">>,
     parse_spell_absorbed_support2 |->
        <<"1/31 23:32:26.312  SPELL_ABSORBED_SUPPORT", "Creature-0-1467-1501-22700-98542-00003AC9B3", "Amalgam of Souls", "0x10a48", "0x0", "Player-1329-0A17341B", "Oscaruwu-Ravencrest", "0x512", "0x0", "Player-1329-0A17341B", "Oscaruwu-Ravencrest", "0x512", "0x0", "395152", "Ebon Might", "0xc", "7839", "55203", "nil", "Player-1379-0AD1D733">>,
     parse_challenge_mode_start |->
        <<"1/31 23:26:12.705  CHALLENGE_MODE_START", "Black Rook Hold", "1501", "199", "18", "[9", "134", "11]">>,
     parse_challenge_mode_end |->
        <<"1/31 23:26:12.693  CHALLENGE_MODE_END", "1501", "0", "0", "0", "0.000000", "0.000000">>,
     spell_damage |->
        <<"2/15 20:32:16.706  SPELL_DAMAGE", "Player-1329-0A00AB32", "Twigsneak-Ravencrest", "0x514", "0x0", "Creature-0-4233-2549-14868-200927-00004E626C", "Smolderon", "0x10a48", "0x0", "410089", "Prescience", "0x40", "Creature-0-4233-2549-14868-200927-00004E626C", "0000000000000000", "1439613", "1442829", "0", "0", "5043", "0", "3", "3", "100", "0", "4043.26", "13109.35", "2233", "2.9862", "73", "163", "73", "-1", "8", "0", "0", "0", "1", "nil", "nil">>,
     spell_absorbed |->
        <<"2/15 20:33:05.904  SPELL_ABSORBED", "Creature-0-4233-2549-14868-200927-00004E626C", "Smolderon", "0x10a48", "0x0", "Player-1329-0A0800FA", "Foxgates-Ravencrest", "0x512", "0x0", "422578", "Searing Aftermath", "0x4", "Player-1329-0A0800FA", "Foxgates-Ravencrest", "0x512", "0x0", "413984", "Shifting Sands", "0x40", "1284", "37144", "nil">>,
     swing_absorbed |->
        <<"1/31 23:32:26.312  SPELL_ABSORBED", "Creature-0-1467-1501-22700-98542-00003AC9B3", "Amalgam of Souls", "0x10a48", "0x0", "Player-1329-0A17341B", "Oscaruwu-Ravencrest", "0x512", "0x0", "Player-1329-0A17341B", "Oscaruwu-Ravencrest", "0x512", "0x0", "395152", "Ebon Might", "0xc", "7839", "55203", "nil">>]

Samples == {Sample[n] : n \in DOMAIN Sample}

PrefixWords == {"SWING", "RANGE", "SPELL", "SPELL_PERIODIC", "SPELL_BUILDING", "ENVIRONMENTAL"}

SuffixWords == {SuffixArms[i] : i \in 1..Len(SuffixArms)} \cup {"DAMAGE_SUPPORT", "ABSORBED_SUPPORT", "DAMAGE_LANDED_SUPPORT", "FOO"}

SpecialNames == {"ENCHANT_APPLIED", "ENCHANT_REMOVED", "PARTY_KILL", "UNIT_DIED", "UNIT_DESTROYED", "UNIT_DISSIPATES",
                 "COMBAT_LOG_VERSION", "ZONE_CHANGE", "MAP_CHANGE", "ENCOUNTER_START", "ENCOUNTER_END",
                 "WORLD_MARKER_PLACED", "WORLD_MARKER_REMOVED", "EMOTE", "COMBATANT_INFO", "CHALLENGE_MODE_START",
                 "CHALLENGE_MODE_END"}

EventNames == {p \o "_" \o x : p \in PrefixWords, x \in SuffixWords} \cup SpecialNames
              \cup {"DAMAGE_SPLIT", "DAMAGE_SHIELD", "DAMAGE_SHIELD_MISSED", "FOO_DAMAGE", "DAMAGE", ""}

FieldValues == {"0000000000000000", "nil", "-1", "", "7", "-5", "0x4", "abc", "1|2", "Player", "Player-1329-09AF0ACF",
                "Corpse-0-1465-2454-103-0-000018584E", "ABSORB", "Falling", "BUFF"}

\* the highest field index a mutation replaces or cuts at
MaxFieldIndex == 36

\* the sample under another event name
Renamed(l, n) == [l EXCEPT ![1] = "2/15 20:32:16.706  " \o n]

\* the samples whose fields are replaced and cut: one of each layout
Mutated == Samples \ {Sample.parse_spell_negative, Sample.parse_spell_negative2, Sample.parse_spell_dam_support,
                      Sample.parse_swing_dam_support_neg, Sample.parse_spell_absorbed_support2}

Lines == Samples
         \cup {Renamed(l, n) : l \in Samples, n \in EventNames}
         \cup UNION {{[l EXCEPT ![i] = v] : i \in 2..Min(Len(l), MaxFieldIndex + 1), v \in FieldValues} : l \in Mutated}
         \cup UNION {{SubSeq(l, 1, k) : k \in 0..Min(Len(l), MaxFieldIndex + 1)} : l \in Mutated}

\* what follows the cursor in the samples: the suffix payloads
Payloads == {<<>>} \cup UNION {{SubSeq(l, k, Len(l)) : k \in {10, 13, 27, 30}} : l \in Samples}

\* MISSED payloads: a miss type and the offhand flag, alone, followed by
\* three fields that are no numerals, and followed by an absorbed amount
MissedPayloads == UNION {{<<m, "nil">>, <<m, "1">>, <<m, "nil", "zz", "zz", "zz">>, <<m, "nil", "120", "340", "1">>, <<m>>,
                          <<m, "nil", "120">>} :
                         m \in {"ABSORB", "BLOCK", "DEFLECT", "DODGE", "EVADE", "IMMUNE", "MISS", "PARRY", "REFLECT", "RESIST",
                                "Absorb", "dodge", "GLANCE", ""}}

\* Suffix::parse looks at the end of the name only: two prefixes suffice
SuffixCallNames == {p \o "_" \o x : p \in {"SWING", "SPELL"}, x \in SuffixWords}
                   \cup {"DAMAGE_SPLIT", "DAMAGE_SHIELD_MISSED", "DAMAGE", "EMOTE", ""}

\* spell-info blocks: an id, a name and a school mask, and blocks of another length
SpellInfoLines == {<<id, "Regrowth", school>> : id \in {"8936", "-1", "abc"},
                                               school \in {"-1", "0", "0x0", "0x8", "1", "127", "0x7f", "256", "abc", ""}}
                  \cup {<<>>, <<"8936", "Regrowth">>, <<"8936", "Regrowth", "0x8", "nil">>}

\* advanced blocks: the block of the test of AdvancedParams::parse with its
\* four power cells replaced by lists of one, two and three segments
PowerCells == [type |-> {"3", "3|4", "0|3|-1"}, cur |-> {"43", "43|6", "1|2|3"}, max |-> {"300", "300|6", "4|5|6"},
               cost |-> {"25", "25|6", "7|8|9", "25|x"}]

AdvancedLines == {<<"Player-1335-0A264B4C", "0000000000000000", "621960", "621960", "12071", "1488", "4067", "0",
                    t, cur, max, cost, "3471.75", "13115.98", "2232", "0.4119", "455">> :
                  t \in PowerCells.type, cur \in PowerCells.cur, max \in PowerCells.max, cost \in PowerCells.cost}
                 \cup {<<>>, <<"Player-1335-0A264B4C", "0000000000000000">>}
                 \cup {<<"Creature-0-1469-2549-12530-210177-000011428F", "0000000000000000", "5927873", "7468728", "0", "0",
                          "5043", "0", "1", "0", "0", "0", "3295.44", "13209.11", "2232", "3.4506", "72">>,
                        <<"Player-1393-077C088C", "0000000000000000", "696560", "696560", "14262", "2190", "4869", "0", "3",
                          "160", "160", "0", "3316.10", "13199.07", "2232", "5.3044", "470">>}
                 \cup {<<"Player-1335-0A264B4C", "Creature-0-1469-2549-12530-210177-000011428F", "2", "3", "4", "5", "6", "7",
                          "3|4", "43|6", "300|7", "25|8", "12.5", "13.5", m, f, "16">> :
                        m \in {"14", "2232", "14.5", "-1"}, f \in {"15", "15.5", "0.4119", "x"}}

\* power-type codes: the ends of the enumeration, absent, and codes outside
PowerCodes == {"-1", "-2", "0", "3", "25", "26", "-3", "127", "128", "abc", ""}

\* the advanced block of the test with one resource of each code
PowerCodeLine(c) == <<"Player-1335-0A264B4C", "0000000000000000", "621960", "621960", "12071", "1488", "4067", "0",
                      c, "43", "300", "25", "3471.75", "13115.98", "2232", "0.4119", "455">>

\* ENERGIZE, DRAIN and LEECH payloads with each code
EnergizePayload(c) == <<"10.0", "0.0", c, "100">>

DrainPayload(c) == <<"10", c, "0", "100">>

PowerSuffixCalls == {[fn |-> "Suffix::parse", event_type |-> n, line |-> EnergizePayload(c)] :
                     n \in {"SPELL_ENERGIZE", "SPELL_PERIODIC_ENERGIZE"}, c \in PowerCodes}
                    \cup {[fn |-> "Suffix::parse", event_type |-> n, line |-> DrainPayload(c)] :
                          n \in {"SPELL_DRAIN", "SPELL_PERIODIC_DRAIN", "SPELL_LEECH", "SPELL_PERIODIC_LEECH"}, c \in PowerCodes}

\* GUID strings: the sentinel, the kinds the code knows, and others
GuidStrings == {"0000000000000000", "00000000000000000", "000000000000000", "", "-", "nil", "0x0", "Player", "player-1-2",
                "-Player", "Player-1329-09AF0ACF", "Player-x-09AF0ACF", "Pet", "Pet-0-4233-2549-14868-165189-0203D0A7F1",
                "Creature-0-4233-2549-14868-200927-00004E626C", "Creature-0-4233", "GameObject-0-1-2-3-4-5",
                "Vehicle-0-1-2-3-4-5", "Corpse", "Corpse-0-1465-2454-103-0-000018584E", "Item-1329-0-4000000C",
                "BattlePet-0-000001", "Cast-3-1-2-3-4-5", "Uncategorized", "Creatures-0-1-2-3-4-5"}

\* actor blocks: a GUID, a name, flags and raid flags, and a lone sentinel
ActorLines == {<<g, n, f, r>> : g \in {"0000000000000000", "Player-1393-077C088C", "Corpse-0-1465-2454-103-0-000018584E",
                                       "Creature-0-4233-2549-14868-200927-00004E8C97"},
                                n \in {"nil", "Smolderon"},
                                f \in {"0x514", "0000000000000000", "0x8000000", "nil", "zz"},
                                r \in {"nil", "0x0", "0x8000000", "0000000000000000", "zz", ""}}
              \cup {<<>>, <<"0000000000000000">>, <<"Player-1393-077C088C", "Mubaku-BronzeDragonflight", "0x514">>}

\* what Prefix::parse is given: names by their beginning, and prefix fields
PrefixCallNames == EventNames \cup {"SWING", "SWINGING", "RANGED_X", "SPELL", "SPELLS", "SPELL_PERIODIC", "SPELL_PERIODICAL_X",
                                    "SPELL_BUILDING", "SPELL_BUILD", "SPELL_PERIOD", "ENVIRONMENTAL", "ENVIRONMENT_DAMAGE",
                                    "XSPELL_DAMAGE", "spell_damage", "_SPELL", "SWIN", "S"}

PrefixLines == {<<>>, <<"8936", "Regrowth", "0x8">>, <<"8936", "Regrowth", "-1">>, <<"Falling">>, <<"FALLING">>,
                <<"abc", "Regrowth", "0x8">>, <<"8936", "Regrowth">>, <<"8936", "Regrowth", "0x8", "nil">>}

\* the fields of an EMOTE line with one of them replaced
EmoteLines == {Tail(l) : l \in {Sample.parse_emote_player, Sample.parse_emote_env}}
              \cup UNION {{[Tail(l) EXCEPT ![i] = v] : i \in 1..5, v \in FieldValues \cup {"0x514"}} :
                          l \in {Sample.parse_emote_player, Sample.parse_emote_env}}

\* what Special::parse is given: the fields after the first of a line
SpecialPayloads == {<<>>} \cup {Tail(l) : l \in {Sample.combat_log_version, Sample.parse_challenge_mode_start,
                                                  Sample.parse_challenge_mode_end, Sample.swing_missed,
                                                  Sample.parse_emote_env}}

SpecialCallNames == SpecialNames \cup {"COMBATANT_INFO", "SPELL_DAMAGE", "DAMAGE_SPLIT", "emote", "EMOTE_", "FOO", ""}

\* COMBATANT_INFO lines: the line of tests::parse_combatant_info with two
\* talents, two item slots and two auras, each of its four sections present,
\* empty or left out, and the pvp tuple with four, three or five ids
CombatantHead == <<"Player-1098-0500B8C6", "1", "12648", "1734", "52761", "1128", "0", "0", "0", "3511", "3511", "3511",
                   "900", "0", "4692", "4692", "4692", "443", "6741", "533", "533", "533", "11302", "251">>

CombatantTail == <<"145", "0", "0", "0">>

TalentSections == {<<"[(76034", "96162", "1)", "(76036", "96164", "2)]">>, <<"[]">>, <<>>}

FourIds == <<"(1", "204080", "199719", "233396)">>

PvpSections == {FourIds, <<"(1", "204080", "199719)">>, <<"(1", "204080", "199719", "233396", "5)">>, <<"()">>, <<>>}

ItemSections == {<<"[(207200", "489", "(7052", "0", "0)", "(40", "9513)", "(192961", "415))", "(0", "0", "()", "()", "())]">>,
                 <<"[]">>, <<>>}

AuraSections == {<<"[Player-1098-0500B8C6", "396092", "Player-1303-0C124AD2", "6673]">>, <<"[]">>, <<>>}

CombatantLine(t, p, i, a) == CombatantHead \o t \o p \o i \o a \o CombatantTail

CombatantLines == {CombatantLine(t, p, i, a) : t \in TalentSections, p \in PvpSections, i \in ItemSections, a \in AuraSections}

\* the same lines as events, under the timestamp of the test
CombatantEvents == {<<"4/11 23:57:17.207  COMBATANT_INFO">> \o CombatantLine(t, FourIds, i, a) :
                    t \in TalentSections, i \in ItemSections, a \in AuraSections}

\* the numeral of n in the radix, lower-case digits
RECURSIVE Numeral(_, _)
Numeral(n, radix) == IF n < radix THEN Ch(HexChars, n + 1) ELSE Numeral(n \div radix, radix) \o Ch(HexChars, (n % radix) + 1)

\* spell-school masks: every u8 and the values just above in decimal and in
\* 0x-hexadecimal, the strings of tests::parse_spell_school, and malformed ones
MaskStrings == {Numeral(n, 10) : n \in 0..300} \cup {"0x" \o Numeral(n, 16) : n \in 0..300}
               \cup {"-1", "0x6A", "0xFF", "0X2", "", "0x", "-2", "6A", "1000", "0x1000"}

\* first fields without the double space between timestamp and event type,
\* and the version row under timestamps
FirstFields == {"SWING_MISSED", "4/6 14:02:07.362 SWING_MISSED", "4/6 14:02:07.362", "", " ", "COMBAT_LOG_VERSION ",
                " COMBAT_LOG_VERSION", "combat_log_version", "4/6 14:09:44.867 COMBAT_LOG_VERSION", "ENCOUNTER_START",
                "4/6 14:09:44.867  COMBAT_LOG_VERSION", "12/31 23:59:59.999  COMBAT_LOG_VERSION",
                "13/1 00:00:00.000  COMBAT_LOG_VERSION", "  COMBAT_LOG_VERSION", "COMBAT_LOG_VERSION  COMBAT_LOG_VERSION"}

FirstFieldLines == {[l EXCEPT ![1] = f] : l \in {Sample.swing_missed, Sample.combat_log_version}, f \in FirstFields}

Calls == {[fn |-> "Event::parse", event_type |-> "", line |-> l] : l \in Lines \cup CombatantEvents \cup FirstFieldLines}
         \cup {[fn |-> "CombatantInfo::parse", event_type |-> "", line |-> l] : l \in CombatantLines}
         \cup {[fn |-> "Suffix::parse", event_type |-> n, line |-> p] : n \in SuffixCallNames, p \in Payloads}
         \cup {[fn |-> "Suffix::has_advanced_params", event_type |-> n, line |-> <<>>] : n \in EventNames}
         \cup {[fn |-> "Suffix::parse", event_type |-> n, line |-> p] :
               n \in {"SWING_MISSED", "SPELL_MISSED", "DAMAGE_SHIELD_MISSED"}, p \in MissedPayloads}
         \cup {[fn |-> "Special::parse", event_type |-> n, line |-> p] : n \in SpecialCallNames, p \in SpecialPayloads}
         \cup {[fn |-> "Special::parse", event_type |-> "EMOTE", line |-> p] : p \in EmoteLines}
         \cup {[fn |-> "SpellInfo::parse_record", event_type |-> "", line |-> l] : l \in SpellInfoLines}
         \cup {[fn |-> "AdvancedParams::parse", event_type |-> "", line |-> l] :
               l \in AdvancedLines \cup {PowerCodeLine(c) : c \in PowerCodes}}
         \cup PowerSuffixCalls
         \cup {[fn |-> "GUID::parse", event_type |-> "", line |-> <<s>>] : s \in GuidStrings}
         \cup {[fn |-> "Actor::parse", event_type |-> "", line |-> l] : l \in ActorLines}
         \cup {[fn |-> "Prefix::parse", event_type |-> n, line |-> l] : n \in PrefixCallNames, l \in PrefixLines}
         \cup {[fn |-> "Prefix::entries_to_consume", event_type |-> n, line |-> <<>>] : n \in PrefixCallNames}
         \cup {[fn |-> "SpellSchool::parse", event_type |-> "", line |-> <<s>>] : s \in MaskStrings}

\* ------------------------------------------------------------------------
\* State machine: one call of an entry point on one input
\* ------------------------------------------------------------------------
\* call, pc, result and cursor are one call; parsed is the log of the calls
\* already returned and local what the frame of EventType::parse holds;
\* handlers are the event handlers of main.rs with what they hold and have
\* written, and watch the log file under the watcher of main.rs
VARIABLES call, pc, result, cursor, parsed, local, handlers, watch

vars == <<call, pc, result, cursor, parsed, local, handlers, watch>>

\* no handler is registered and no file is watched
NoHandlers == [list |-> <<>>]

NoWatch == [size |-> 0]

NoResult == [tag |-> "None"]

\* a frame nothing has been written to
NoLocals == [table |-> <<>>, dispatch |-> ""]

Init ==
    /\ call \in Calls
    /\ pc = "ready"
    /\ result = NoResult
    /\ cursor = NoCursor
    /\ parsed = <<>>
    /\ local = NoLocals
    /\ handlers = NoHandlers
    /\ watch = NoWatch

\* the call returns: its outcome and, for Event::parse, its cursor
Return(outcome, c) ==
    /\ result' = outcome
    /\ cursor' = c
    /\ pc' = "done"
    /\ UNCHANGED <<call, parsed, local, handlers, watch>>

\* Event::parse returns what the trace holds
ReturnTrace(traced) == Return(traced.outcome, traced.cursor)

CallEventParse ==
    /\ pc = "ready"
    /\ call.fn = "Event::parse"
    /\ ReturnTrace(Event_trace(call.line))

CallSuffixParse ==
    /\ pc = "ready"
    /\ call.fn = "Suffix::parse"
    /\ Return(Suffix_parse(call.event_type, call.line), cursor)

CallHasAdvancedParams ==
    /\ pc = "ready"
    /\ call.fn = "Suffix::has_advanced_params"
    /\ Return(has_advanced_params(call.event_type), cursor)

CallSpecialParse ==
    /\ pc = "ready"
    /\ call.fn = "Special::parse"
    /\ Return(Special_parse(call.event_type, call.line), cursor)

CallSpellInfoParse ==
    /\ pc = "ready"
    /\ call.fn = "SpellInfo::parse_record"
    /\ Return(SpellInfo_parse(call.line), cursor)

CallAdvancedParamsParse ==
    /\ pc = "ready"
    /\ call.fn = "AdvancedParams::parse"
    /\ Return(AdvancedParams_parse(call.line), cursor)

CallGUIDParse ==
    /\ pc = "ready"
    /\ call.fn = "GUID::parse"
    /\ Return(GUID_parse(call.line[1]), cursor)

CallActorParse ==
    /\ pc = "ready"
    /\ call.fn = "Actor::parse"
    /\ Return(Actor_parse(call.line), cursor)

CallPrefixParse ==
    /\ pc = "ready"
    /\ call.fn = "Prefix::parse"
    /\ Return(Prefix_parse(call.event_type, call.line), cursor)

CallEntriesToConsume ==
    /\ pc = "ready"
    /\ call.fn = "Prefix::entries_to_consume"
    /\ Return(entries_to_consume(call.event_type), cursor)

CallSpellSchoolParse ==
    /\ pc = "ready"
    /\ call.fn = "SpellSchool::parse"
    /\ Return(SpellSchool_parse(call.line[1]), cursor)

CallCombatantInfoParse ==
    /\ pc = "ready"
    /\ call.fn = "CombatantInfo::parse"
    /\ Return(CombatantInfo_parse(call.line), cursor)

Next ==
    \/ CallEventParse
    \/ CallSuffixParse
    \/ CallHasAdvancedParams
    \/ CallSpecialParse
    \/ CallSpellInfoParse
    \/ CallAdvancedParamsParse
    \/ CallGUIDParse
    \/ CallActorParse
    \/ CallPrefixParse
    \/ CallEntriesToConsume
    \/ CallCombatantInfoParse
    \/ CallSpellSchoolParse

Spec == Init /\ [][Next]_vars

\* ------------------------------------------------------------------------
\* State machine: a session of MaxReplay calls of Event::parse, one after the
\* other.  The locals of EventType::parse are written in every call; what a
\* call leaves in them is still there when the next one starts.
\* ------------------------------------------------------------------------
MaxReplay == 3

ReplayLines == {Sample.swing_missed, Sample.cast_success, Sample.parse_bres, Sample.parse_emote_env,
                Sample.combat_log_version, Renamed(Sample.spell_damage, "DAMAGE_SPLIT"),
                Renamed(Sample.aura_removed, "DAMAGE_SHIELD_MISSED"), [Sample.swing_missed EXCEPT ![1] = "SWING_MISSED"], <<>>}

ReplayCalls == {[fn |-> "Event::parse", event_type |-> "", line |-> l] : l \in ReplayLines}

\* the call gets as far as the remapping table: the timestamp is read and
\* Special::parse returns the sentinel
ReachesStandard(line) ==
    /\ Len(line) > 0
    /\ IsOk(Event_timestamp(line))
    /\ Special_parse(Event_name(line), Tail(line)) = Ok(NoneSentinel)

\* the dispatch name kept from the call before when the table has no entry
locals_of_retained(frame, event_type) ==
    [table |-> specially_named_events,
     dispatch |-> IF event_type \in DOMAIN specially_named_events THEN specially_named_events[event_type]
                  ELSE IF frame.dispatch # "" THEN frame.dispatch ELSE event_type]

\* let specially_named_events = HashMap::from([..]); let (name, event_type) =
\* match specially_named_events.get(&event_type) {..}: both written anew,
\* whatever the frame held
locals_of(frame, event_type) == [table |-> specially_named_events, dispatch |-> dispatch_name(event_type)]

InitReplay ==
    /\ call \in ReplayCalls
    /\ pc = "ready"
    /\ result = NoResult
    /\ cursor = NoCursor
    /\ parsed = <<>>
    /\ local = NoLocals
    /\ handlers = NoHandlers
    /\ watch = NoWatch

\* Event::parse up to the remapping: a failure of the timestamp, a special
\* event and a failure inside one return at once
ReplayDispatch ==
    /\ pc = "ready"
    /\ IF ReachesStandard(call.line)
       THEN /\ pc' = "standard"
            /\ local' = locals_of(local, Event_name(call.line))
            /\ UNCHANGED result
       ELSE /\ pc' = "done"
            /\ result' = Event_parse(call.line)
            /\ UNCHANGED local
    /\ UNCHANGED <<call, cursor, parsed, handlers, watch>>

\* the standard path on the dispatch name the frame holds, and the return
ReplayStandard ==
    /\ pc = "standard"
    /\ result' = Event_of(Event_timestamp(call.line),
                          Standard_branch(Event_name(call.line), local.dispatch, Tail(call.line))).outcome
    /\ pc' = "done"
    /\ UNCHANGED <<call, cursor, parsed, local, handlers, watch>>

\* the caller keeps the result and parses the next line
ReplayRecord ==
    /\ pc = "done"
    /\ parsed' = Append(parsed, [line |-> call.line, outcome |-> result])
    /\ result' = NoResult
    /\ IF Len(parsed) + 1 < MaxReplay
       THEN pc' = "ready" /\ call' \in ReplayCalls
       ELSE pc' = "end" /\ UNCHANGED call
    /\ UNCHANGED <<cursor, local, handlers, watch>>

NextReplay == ReplayDispatch \/ ReplayStandard \/ ReplayRecord

SpecReplay == InitReplay /\ [][NextReplay]_vars

\* ------------------------------------------------------------------------
\* State machine: process mode (src/main.rs parse_file, process).  The
\* reader yields one parse result per line of the input; every result is
\* handed to every handler of the list, in the order of the list, before the
\* next line is read.  parsed is the log of the results yielded.
\* ------------------------------------------------------------------------
MaxStream == 3

\* the SPELL_DAMAGE sample under another timestamp, source and amount
DamageLine(ts, guid, name, amount) ==
    [Sample.spell_damage EXCEPT ![1] = ts \o "  SPELL_DAMAGE", ![2] = guid, ![3] = name, ![30] = amount]

\* the lines of a log around midnight of 31 December: damage of two players,
\* damage of a creature and of no source, an encounter start, a line that
\* fails, a line that is no damage and an empty line
StreamLines ==
    {DamageLine("12/31 23:59:59.500", "Player-1329-0A00AB32", "Twigsneak-Ravencrest", "163"),
     DamageLine("1/1 00:00:00.200", "Player-1329-09AF0ACF", "Adamthebash-Ravencrest", "40"),
     DamageLine("12/31 23:59:59.700", "Creature-0-4233-2549-14868-200927-00004E626C", "Smolderon", "1000"),
     DamageLine("12/31 23:59:59.800", "0000000000000000", "nil", "2000"),
     <<"12/31 23:59:59.900  ENCOUNTER_START", "2820", "Gnarlroot", "14", "19", "2549">>,
     Sample.parse_bres, Sample.swing_missed, <<>>}

\* EventParser: the item the reader yields for a line
EventParser_item == [l \in StreamLines |-> Event_parse(l)]

\* DamageTracker::new
DamageTracker_new == [accumulated |-> [n \in {} |-> 0], start_time |-> None, latest_time |-> None]

\* DamageTracker::reset
DamageTracker_reset(self) == [accumulated |-> [n \in {} |-> 0], start_time |-> None, latest_time |-> None]

\* the first pattern of DamageTracker::handle: an Ok Standard event with a
\* present source whose GUID is a Player and a Damage suffix
IsPlayerDamage(event) ==
    /\ IsOk(event)
    /\ event.val.event_type.kind = "Standard"
    /\ event.val.event_type.source.some
    /\ event.val.event_type.source.v.guid.kind = "Player"
    /\ event.val.event_type.suffix.shape = "Damage"

\* the second pattern: an Ok Special event whose details are EncounterStart
IsEncounterStart(event) ==
    /\ IsOk(event)
    /\ event.val.event_type.kind = "Special"
    /\ event.val.event_type.details.shape = "EncounterStart"

\* the body of the first arm
DamageTracker_add(self, time, name, dmg) ==
    [accumulated |-> [n \in DOMAIN self.accumulated \cup {name} |->
                        IF n # name THEN self.accumulated[n]
                        ELSE IF name \in DOMAIN self.accumulated THEN self.accumulated[name] + dmg ELSE dmg],
     start_time |-> IF DOMAIN self.accumulated = {} THEN Some(time) ELSE self.start_time,
     latest_time |-> Some(time)]

\* the first arm taken for every source that is present
DamageTracker_handle_any_source(self, event) ==
    IF IsOk(event) /\ event.val.event_type.kind = "Standard" /\ event.val.event_type.source.some
       /\ event.val.event_type.suffix.shape = "Damage"
    THEN DamageTracker_add(self, event.val.timestamp, event.val.event_type.source.v.name, event.val.event_type.suffix.amount)
    ELSE IF IsEncounterStart(event) THEN DamageTracker_reset(self)
    ELSE self

\* DamageTracker::handle
DamageTracker_handle(self, event) ==
    IF IsPlayerDamage(event)
    THEN DamageTracker_add(self, event.val.timestamp, event.val.event_type.source.v.name, event.val.event_type.suffix.amount)
    ELSE IF IsEncounterStart(event) THEN DamageTracker_reset(self)
    ELSE self

\* the days of 2024 before the first of the month
DaysBeforeMonth(month) ==
    LET RECURSIVE sum(_)
        sum(m) == IF m = 0 THEN 0 ELSE DaysInMonth2024[m] + sum(m - 1)
    IN sum(month - 1)

\* whole seconds from the start of 2024 to the time
SecondOfYear(t) == (((DaysBeforeMonth(t.month) + t.day - 1) * 24 + t.hour) * 60 + t.minute) * 60 + t.second

\* (end - start).num_seconds(): the difference in whole seconds, rounded
\* towards zero
num_seconds(end, start) ==
    LET nanos == (end.nanos - start.nanos) % 1000000000
        secs == SecondOfYear(end) - SecondOfYear(start) - (IF end.nanos < start.nanos THEN 1 ELSE 0)
    IN IF secs < 0 /\ nanos > 0 THEN secs + 1 ELSE secs

\* the duration of DamageTracker::display
DamageTracker_duration(self) ==
    IF self.start_time.some /\ self.latest_time.some THEN num_seconds(self.latest_time.v, self.start_time.v) + 1 ELSE 1

\* format!("{:?}\n", x): the line written for a value
DebugLine(x) == [debug |-> x, newline |-> TRUE]

\* the logger writing every result to the good file
FileLogger_handle_one_file(self, event) == [self EXCEPT !.good_file = Append(@, DebugLine(IF IsOk(event) THEN event.val ELSE event.kind))]

\* FileLogger::handle
FileLogger_handle(self, event) ==
    IF IsOk(event) THEN [self EXCEPT !.good_file = Append(@, DebugLine(event.val))]
    ELSE [self EXCEPT !.bad_file = Append(@, DebugLine(event.kind))]

\* StdLogger::handle
StdLogger_handle(self, event) ==
    IF IsOk(event) THEN [self EXCEPT !.stdout = Append(@, DebugLine(event.val))]
    ELSE [self EXCEPT !.stderr = Append(@, event.kind)]

\* execute: the damage tracker, then the logger of the output mode
HandlerLists == {<<"DamageTracker", "StdLogger">>, <<"DamageTracker", "FileLogger">>}

InitStream ==
    /\ call = [fn |-> "Event::parse", event_type |-> "", line |-> <<>>]
    /\ pc = "ready"
    /\ result = NoResult
    /\ cursor = NoCursor
    /\ parsed = <<>>
    /\ local = NoLocals
    /\ \E list \in HandlerLists :
          handlers = [list |-> list, at |-> 1, seen |-> [h \in DOMAIN list |-> <<>>], tracker |-> DamageTracker_new,
                      logger |-> [good_file |-> <<>>, bad_file |-> <<>>, stdout |-> <<>>, stderr |-> <<>>]]
    /\ watch = NoWatch

\* the reader yields the result of the line; a panic of Event::parse ends
\* the process
Yield(l, item) ==
    /\ call' = [call EXCEPT !.line = l]
    /\ result' = item
    /\ IF item.tag = "Panic"
       THEN pc' = "panicked" /\ UNCHANGED parsed
       ELSE pc' = "handling" /\ parsed' = Append(parsed, [line |-> l, outcome |-> item])
    /\ UNCHANGED <<cursor, local, handlers, watch>>

\* reader.for_each: the next item of the reader
EventParserNext ==
    /\ pc = "ready"
    /\ Len(parsed) < MaxStream
    /\ \E l \in StreamLines : Yield(l, EventParser_item[l])

\* the reader is at the end of the input
EventParserEnd ==
    /\ pc = "ready"
    /\ pc' = "end"
    /\ UNCHANGED <<call, result, cursor, parsed, local, handlers, watch>>

\* handlers.iter_mut().for_each(|h| h.handle(&e)): the handler at the
\* cursor has handled the item; after the last one the next item is read
Handled(after) ==
    /\ handlers' = [after EXCEPT !.at = IF handlers.at = Len(handlers.list) THEN 1 ELSE handlers.at + 1,
                                 !.seen[handlers.at] = Append(@, Len(parsed))]
    /\ pc' = IF handlers.at = Len(handlers.list) THEN "ready" ELSE "handling"
    /\ UNCHANGED <<call, result, cursor, parsed, local, watch>>

HandleDamageTracker ==
    /\ pc = "handling"
    /\ handlers.list[handlers.at] = "DamageTracker"
    /\ Handled([handlers EXCEPT !.tracker = DamageTracker_handle(@, result)])

HandleFileLogger ==
    /\ pc = "handling"
    /\ handlers.list[handlers.at] = "FileLogger"
    /\ Handled([handlers EXCEPT !.logger = FileLogger_handle(@, result)])

HandleStdLogger ==
    /\ pc = "handling"
    /\ handlers.list[handlers.at] = "StdLogger"
    /\ Handled([handlers EXCEPT !.logger = StdLogger_handle(@, result)])

NextStream == EventParserNext \/ EventParserEnd \/ HandleDamageTracker \/ HandleFileLogger \/ HandleStdLogger

SpecStream == InitStream /\ [][NextStream]_vars

\* ------------------------------------------------------------------------
\* State machine: watch mode (src/main.rs watch).  The game appends to the
\* log file while the watcher thread queues change notifications and the
\* main thread handles them one at a time.  The file is counted in chunks
\* of appended bytes; watch.handed counts, per chunk, how often it has been
\* given to the parser.
\* ------------------------------------------------------------------------
MaxFile == 3

MaxPending == 3

\* let mut prev_size = File::open(path)?.metadata()?.len(): the watcher is
\* registered before the size is recorded, so a notification may be queued
InitWatch ==
    /\ call = [fn |-> "watch", event_type |-> "", line |-> <<>>]
    /\ pc = "waiting"
    /\ result = NoResult
    /\ cursor = NoCursor
    /\ parsed = <<>>
    /\ local = NoLocals
    /\ handlers = NoHandlers
    /\ \E size \in 0..1, queued \in 0..1 :
          watch = [size |-> size, initial |-> size, prev_size |-> size, new_size |-> size, rx |-> queued,
                   handed |-> [b \in 1..MaxFile |-> 0]]

\* the game appends a chunk; the watcher thread sends one notification or
\* several
FileAppend ==
    /\ watch.size < MaxFile
    /\ \E sent \in 1..2 :
          /\ watch.rx + sent <= MaxPending
          /\ watch' = [watch EXCEPT !.size = @ + 1, !.rx = @ + sent]
    /\ UNCHANGED <<call, pc, result, cursor, parsed, local, handlers>>

\* for event in rx.iter(): the next notification; File::open
WatchReceive ==
    /\ pc = "waiting"
    /\ watch.rx > 0
    /\ watch' = [watch EXCEPT !.rx = @ - 1]
    /\ pc' = "opened"
    /\ UNCHANGED <<call, result, cursor, parsed, local, handlers>>

\* let new_size = file.metadata()?.len()
WatchMeasure ==
    /\ pc = "opened"
    /\ watch' = [watch EXCEPT !.new_size = watch.size]
    /\ pc' = "measured"
    /\ UNCHANGED <<call, result, cursor, parsed, local, handlers>>

\* the chunks a reader placed at from reads up to the end of the file
ReadToEnd(handed, from, end) == [b \in DOMAIN handed |-> IF from < b /\ b <= end THEN handed[b] + 1 ELSE handed[b]]

\* file.seek(SeekFrom::Current(prev_size)); parse_file(BufReader::new(file), ..):
\* everything from prev_size to the end the file has now
WatchParse ==
    /\ pc = "measured"
    /\ watch' = [watch EXCEPT !.handed = ReadToEnd(@, watch.prev_size, watch.size)]
    /\ pc' = "parsed"
    /\ UNCHANGED <<call, result, cursor, parsed, local, handlers>>

\* prev_size = new_size
WatchCommit ==
    /\ pc = "parsed"
    /\ watch' = [watch EXCEPT !.prev_size = watch.new_size]
    /\ pc' = "waiting"
    /\ UNCHANGED <<call, result, cursor, parsed, local, handlers>>

NextWatch == FileAppend \/ WatchReceive \/ WatchMeasure \/ WatchParse \/ WatchCommit

SpecWatch == InitWatch /\ [][NextWatch]_vars

\* ------------------------------------------------------------------------
\* Properties
\* ------------------------------------------------------------------------
Returned(fn) == pc = "done" /\ call.fn = fn

\* the post-timestamp fields of the line given to Event::parse
Fields == Tail(call.line)

\* the Ok value's event type record
EventOf(r) == r.val.event_type

\* C1: for a SPELL_ABSORBED or SPELL_ABSORBED_SUPPORT standard event the
\* assembler consumes 3 prefix fields when field 8 parses as an unsigned
\* integer and 0 when it does not, the prefix is Spell(Some) resp.
\* Spell(None), and the well-formed absorbed lines parse successfully.
C1_AbsorbedPrefixWidth ==
    /\ (Returned("Event::parse") /\ cursor.entered /\ cursor.name \in {"SPELL_ABSORBED", "SPELL_ABSORBED_SUPPORT"}
        /\ Len(Fields) > 8)
       => LET numeric == IsOk(u64_from_str(Fields[9]))
          IN /\ cursor.consume = Ok(IF numeric THEN 3 ELSE 0)
             /\ IsOk(cursor.prefix) => cursor.prefix.val.spell_info.some = numeric
    /\ (Returned("Event::parse") /\ call.line \in {Sample.spell_absorbed, Sample.swing_absorbed,
                                                Sample.parse_spell_absorbed_support,
                                                Sample.parse_spell_absorbed_support2})
       => IsOk(result)

\* C2: Event::parse returns Ok or Err on every field sequence, and never
\* panics.
C2_EventParseNeverPanics == Returned("Event::parse") => result.tag \in {"Ok", "Err"}

\* C3: Event::parse succeeds on the well-formed SPELL_DAMAGE_SUPPORT,
\* SWING_DAMAGE_LANDED_SUPPORT and SPELL_ABSORBED_SUPPORT lines, and
\* has_advanced_params recognises every event type ending in _SUPPORT whose
\* stem it recognises.
C3_SupportLinesParse ==
    /\ (Returned("Event::parse") /\ call.line \in {Sample.parse_spell_dam_support, Sample.parse_swing_dam_support,
                                                Sample.parse_spell_absorbed_support,
                                                Sample.parse_spell_absorbed_support2})
       => IsOk(result)
    /\ (Returned("Suffix::has_advanced_params") /\ call.event_type \in {"SPELL_DAMAGE_SUPPORT", "SPELL_ABSORBED_SUPPORT"})
       => IsOk(result)

\* C4: Event::parse succeeds on a standard event whose target actor GUID
\* has the kind token Corpse.
C4_CorpseTargetParses ==
    (Returned("Event::parse") /\ call.line \in {Sample.parse_bres, [Sample.cast_success EXCEPT ![6] = Sample.parse_bres[6]]})
    => IsOk(result)

\* C5: Event::parse succeeds on the damage lines that carry a negative
\* spell power in the advanced block or a negative amount or base amount
\* in the Damage suffix.
C5_NegativeNumbersParse ==
    (Returned("Event::parse") /\ call.line \in {Sample.parse_spell_negative, Sample.parse_spell_negative2,
                                             [Sample.spell_damage EXCEPT ![19] = "-5"],
                                             [Sample.spell_damage EXCEPT ![30] = "-5"],
                                             [Sample.spell_damage EXCEPT ![31] = "-5"]})
    => IsOk(result)

\* the unit variants of C6, by the suffix that names them
UnitVariantOf == [CAST_START |-> "CastStart", CAST_SUCCESS |-> "CastSuccess", CREATE |-> "Create", SUMMON |-> "Summon",
                  RESURRECT |-> "Resurrect", DURABILITY_DAMAGE |-> "DurabilityDamage",
                  DURABILITY_DAMAGE_ALL |-> "DurabilityDamageAll", EMPOWER_START |-> "EmpowerStart"]

\* C6: for every event type ending in one of the eight zero-field suffixes,
\* Suffix::parse given no remaining field returns the unit variant of that
\* name.
C6_UnitSuffixesReadNothing ==
    \A w \in DOMAIN UnitVariantOf :
        (Returned("Suffix::parse") /\ call.line = <<>> /\ ends_with(call.event_type, w))
        => result = Ok([shape |-> UnitVariantOf[w]])

\* the pairs of C7: a table suffix, the shorter table suffix it ends with,
\* and the variant of the longer one
NestedSuffixes == {[long |-> "DURABILITY_DAMAGE", short |-> "DAMAGE", shape |-> "DurabilityDamage"],
                   [long |-> "HEAL_ABSORBED", short |-> "ABSORBED", shape |-> "HealAbsorbed"],
                   [long |-> "EMPOWER_INTERRUPT", short |-> "INTERRUPT", shape |-> "EmpowerInterrupt"]}

\* C7: for an event type that ends with both suffixes of a nested pair, a
\* successful Suffix::parse yields the variant of the longer suffix.
C7_LongestSuffixWins ==
    \A p \in NestedSuffixes :
        (Returned("Suffix::parse") /\ ends_with(call.event_type, p.long) /\ ends_with(call.event_type, p.short)
         /\ IsOk(result))
        => result.val.shape = p.shape

\* the allow-list of C8
AdvancedShapes == {"DAMAGE", "DAMAGE_LANDED", "HEAL", "CAST_SUCCESS", "ENERGIZE", "DRAIN", "LEECH", "STOLEN"}

\* the table suffixes an event type ends with, and the most specific one
TableSuffixesOf(event_type) == {w \in {SuffixArms[i] : i \in 1..Len(SuffixArms)} : ends_with(event_type, w)}

ShapeOf(event_type) == CHOOSE w \in TableSuffixesOf(event_type) : \A v \in TableSuffixesOf(event_type) : Len(v) <= Len(w)

\* C8: has_advanced_params is true exactly for the event types whose suffix
\* shape is in the allow-list, false for every other recognised suffix
\* shape, and an unknown-suffix error for an event type of no shape.
C8_AdvancedByShape ==
    Returned("Suffix::has_advanced_params")
    => result = (IF TableSuffixesOf(call.event_type) = {} THEN Err("Unknown suffix")
                 ELSE Ok(ShapeOf(call.event_type) \in AdvancedShapes))

\* the remapping of C9: the name each of the four dispatches under
RemapTargets == [DAMAGE_SPLIT |-> "SPELL_DAMAGE", DAMAGE_SHIELD |-> "SPELL_DAMAGE",
                 DAMAGE_SHIELD_MISSED |-> "SPELL_MISSED", SWING_DAMAGE_LANDED_SUPPORT |-> "SPELL_DAMAGE_SUPPORT"]

\* C9: a remapped name is dispatched under its target, so that the prefix
\* width, the presence of the advanced block and the suffix are those the
\* target's own line gets, every other name is dispatched under itself, and
\* the emitted Standard event always carries the original name.
C9_RemapKeepsName ==
    (Returned("Event::parse") /\ cursor.entered)
    => /\ IF cursor.name \in DOMAIN RemapTargets
          THEN LET target == StandardSteps(RemapTargets[cursor.name], Fields)
               IN /\ cursor.dispatch = RemapTargets[cursor.name]
                  /\ cursor.consume = target.cursor.consume
                  /\ cursor.has_adv = target.cursor.has_adv
                  /\ cursor.suffix = target.cursor.suffix
          ELSE cursor.dispatch = cursor.name
       /\ IsOk(result) => EventOf(result).kind = "Standard" /\ EventOf(result).name = cursor.name

\* C9 happens: a DAMAGE_SPLIT line parsed as a SPELL_DAMAGE record, named
\* DAMAGE_SPLIT
C9_Witness ==
    /\ Returned("Event::parse")
    /\ IsOk(result)
    /\ cursor.entered
    /\ cursor.name = "DAMAGE_SPLIT"
    /\ cursor.consume = Ok(3)
    /\ EventOf(result).name = "DAMAGE_SPLIT"
    /\ EventOf(result).prefix.shape = "Spell"
    /\ EventOf(result).advanced_params.some
    /\ EventOf(result).suffix.shape = "Damage"

\* C10: on an ENVIRONMENTAL_DAMAGE line long enough for every slice, the
\* advanced block is decoded from fields 8..24, the environmental type from
\* field 25 and the Damage suffix from field 26 on, and a parsed event
\* always carries the advanced block.
C10_EnvironmentalDamageOrder ==
    (Returned("Event::parse") /\ cursor.entered /\ cursor.name = "ENVIRONMENTAL_DAMAGE" /\ Len(Fields) >= 26)
    => LET block == AdvancedParams_parse(SubSeq(Fields, 9, 25))
           env_type == EnvironmentalType_parse(Fields[26])
           damage == Suffix_parse("ENVIRONMENTAL_DAMAGE", SubSeq(Fields, 27, Len(Fields)))
       IN /\ cursor.advanced = (IF IsOk(block) THEN Ok(Some(block.val)) ELSE block)
          /\ cursor.prefix = (IF IsOk(env_type) THEN Ok([shape |-> "Environmental", env_type |-> env_type.val])
                              ELSE env_type)
          /\ cursor.suffix = damage
          /\ cursor.offset = 26
          /\ IsOk(result) => /\ EventOf(result).advanced_params = Some(block.val)
                             /\ EventOf(result).prefix = [shape |-> "Environmental", env_type |-> env_type.val]
                             /\ EventOf(result).suffix = damage.val
                             /\ damage.val.shape = "Damage"

\* C10 happens: the sample fall-damage line parsed, with the hit points of
\* field 10, the type of field 25 and the amount of field 26
C10_Witness ==
    /\ Returned("Event::parse")
    /\ IsOk(result)
    /\ cursor.entered
    /\ cursor.name = "ENVIRONMENTAL_DAMAGE"
    /\ Fields[11] = "815216"
    /\ Fields[26] = "Falling"
    /\ Fields[27] = "51328"
    /\ EventOf(result).advanced_params.v.current_hp = 815216
    /\ EventOf(result).prefix.env_type = "Falling"
    /\ EventOf(result).suffix.amount = 51328

\* C11: Special::parse for EMOTE yields EmoteEnvironmental whenever field 2
\* parses as a GUID, and yields a successful EmoteStandard, the 4-field
\* actor plus the text, whenever field 2 is plain text that is not a GUID,
\* such as "nil" (the other fields being a GUID, a name, raid flags and the
\* text).
C11_EmoteByThirdField ==
    (Returned("Special::parse") /\ call.event_type = "EMOTE" /\ Len(call.line) = 5
     /\ IsOk(GUID_parse(call.line[1])) /\ GUID_parse(call.line[1]).val.some)
    => /\ IsOk(GUID_parse(call.line[3]))
          => IsOk(result) /\ result.val.shape = "EmoteEnvironmental"
       /\ (GUID_parse(call.line[3]).tag = "Err" /\ IsOk(raid_flags_parse(call.line[4])))
          => /\ IsOk(result) /\ result.val.shape = "EmoteStandard"
             /\ Ok(Some(result.val.actor)) = Actor_parse(SubSeq(call.line, 1, 4))
             /\ result.val.text = call.line[5]

\* C12: dispatch tries the special table first: an emitted event is Special
\* exactly when its event-type name is one of the names of the special
\* table; any other name makes Special::parse return NoneSentinel, never an
\* error, and is dispatched as Standard; an error inside a matched special
\* shape is returned rather than falling through to Standard; and no
\* emitted event carries NoneSentinel.
C12_SpecialTableFirst ==
    /\ (Returned("Special::parse") /\ call.event_type \notin SpecialNames) => result = Ok(NoneSentinel)
    /\ (Returned("Special::parse") /\ call.event_type \in SpecialNames) => result # Ok(NoneSentinel)
    /\ (Returned("Event::parse") /\ IsOk(result))
       => /\ EventOf(result).kind = "Special" <=> Event_name(call.line) \in SpecialNames
          /\ EventOf(result).kind = "Standard" <=> Event_name(call.line) \notin SpecialNames
          /\ EventOf(result) # NoneSentinel
          /\ EventOf(result).kind = "Special" => EventOf(result).details # NoneSentinel
    /\ (Returned("Event::parse") /\ Len(call.line) > 0 /\ IsOk(Event_timestamp(call.line))
        /\ Event_name(call.line) \in SpecialNames /\ ~IsOk(Special_parse(Event_name(call.line), Fields)))
       => result = Special_parse(Event_name(call.line), Fields)
    /\ (Returned("Event::parse") /\ Len(call.line) > 0 /\ IsOk(Event_timestamp(call.line))
        /\ Event_name(call.line) \notin SpecialNames)
       => result = Event_of(Event_timestamp(call.line), StandardSteps(Event_name(call.line), Fields)).outcome

\* C12 witness: a COMBATANT_INFO event without its talent list has returned
\* the error of the special shape
C12_Witness ==
    /\ Returned("Event::parse")
    /\ Len(call.line) > 0
    /\ IsOk(Event_timestamp(call.line))
    /\ Event_name(call.line) = "COMBATANT_INFO"
    /\ Fields = CombatantLine(<<>>, FourIds, <<"[]">>, <<"[]">>)
    /\ result = Err("incorrect number of [...] sections found. Expected 3")

\* C13: SpellInfo parsing succeeds when the school field is "-1": it yields
\* a SpellInfo whose school is absent, which differs from the empty set that
\* a mask of 0 produces, and is not an error.
C13_AbsentSchoolIsValid ==
    (Returned("SpellInfo::parse_record") /\ Len(call.line) = 3 /\ call.line[3] = "-1"
     /\ IsOk(u64_from_str(call.line[1])))
    => /\ IsOk(result)
       /\ result.val.spell_school = None
       /\ result # SpellInfo_parse([call.line EXCEPT ![3] = "0"])

\* the '|'-separated segments of power cell k (8..11) of an advanced block
Segments(line, k) == split(line[k + 1], "|")

\* C14: AdvancedParams::parse returns an error when the four pipe-joined
\* power cells (fields 8..11) split on '|' into different numbers of
\* segments; when they split into the same number n of segments, it yields
\* exactly n PowerInfo records, the i-th built from the i-th segment of each
\* cell.
C14_PowerCellsSameArity ==
    (Returned("AdvancedParams::parse") /\ Len(call.line) = 17)
    => IF \E k \in 9..11 : Len(Segments(call.line, k)) # Len(Segments(call.line, 8))
       THEN result.tag = "Err"
       ELSE IsOk(result)
            => /\ Len(result.val.power_info) = Len(Segments(call.line, 8))
               /\ \A i \in 1..Len(Segments(call.line, 8)) :
                     Ok(result.val.power_info[i]) = PowerInfo_entry(Segments(call.line, 8)[i], Segments(call.line, 9)[i],
                                                                    Segments(call.line, 10)[i], Segments(call.line, 11)[i])

C16_NullGuidActorAbsent ==
    /\ (Returned("GUID::parse") /\ call.line[1] = "0000000000000000") => result = Ok(None)
    /\ (Returned("Actor::parse") /\ Len(call.line) >= 1 /\ call.line[1] = "0000000000000000") => result = Ok(None)
    /\ (Returned("Actor::parse") /\ IsOk(result) /\ result.val.some)
       => (result.val.v.raid_flags = None <=> call.line[4] = "nil")

\* C16 witness: a sentinel block whose flags and raid flags are no numerals
\* has been decoded to Ok(None)
C16_Witness ==
    /\ Returned("Actor::parse")
    /\ call.line = <<"0000000000000000", "nil", "zz", "zz">>
    /\ result = Ok(None)

\* C17: CombatantInfo::parse succeeds on a line that contains exactly one
\* bracketed class-talent list, one parenthesised pvp-talent tuple of four
\* ids, one bracketed equipped-items list and one bracketed aura list
\* (possibly empty), and returns an error, neither a panic nor a partly
\* filled record, when one of the four sections is missing or the pvp tuple
\* does not hold exactly four ids.
C17_CombatantSections ==
    Returned("CombatantInfo::parse")
    => \A t \in TalentSections, p \in PvpSections, i \in ItemSections, a \in AuraSections :
          call.line = CombatantLine(t, p, i, a)
          => IF t # <<>> /\ i # <<>> /\ a # <<>> /\ p = FourIds
             THEN /\ IsOk(result)
                  /\ result.val.pvp_talents = <<1, 204080, 199719, 233396>>
                  /\ Len(result.val.class_talents) = (IF t = <<"[]">> THEN 0 ELSE 2)
                  /\ Len(result.val.equipped_items) = (IF i = <<"[]">> THEN 0 ELSE 1)
                  /\ Len(result.val.interesting_auras) = (IF a = <<"[]">> THEN 0 ELSE 2)
             ELSE result.tag = "Err"

\* C17 witness: a line with its four sections and a pvp tuple of three ids
\* has been refused
C17_Witness ==
    /\ Returned("CombatantInfo::parse")
    /\ \E t \in TalentSections, i \in ItemSections, a \in AuraSections :
          /\ t # <<>> /\ i # <<>> /\ a # <<>>
          /\ call.line = CombatantLine(t, <<"(1", "204080", "199719)">>, i, a)
    /\ result = Err("Incorrect number of ids")

\* the prefix shapes in priority order, with the beginning that selects each
\* and its field width
PrefixTable == <<[starts |-> "SWING", shape |-> "Swing", width |-> 0],
                 [starts |-> "RANGE", shape |-> "Range", width |-> 3],
                 [starts |-> "SPELL_PERIODIC", shape |-> "SpellPeriodic", width |-> 3],
                 [starts |-> "SPELL_BUILDING", shape |-> "SpellBuilding", width |-> 3],
                 [starts |-> "SPELL", shape |-> "Spell", width |-> 3],
                 [starts |-> "ENVIRONMENTAL", shape |-> "Environmental", width |-> 1]>>

\* the rows of the table whose beginning the name has
RowsOf(name) == {i \in 1..Len(PrefixTable) : starts_with(name, PrefixTable[i].starts)}

\* the first of them
RowOf(name) == PrefixTable[CHOOSE i \in RowsOf(name) : \A j \in RowsOf(name) : i <= j]

\* C18: prefix dispatch classifies by starts-with in the priority order
\* SWING, RANGE, SPELL_PERIODIC, SPELL_BUILDING, SPELL, ENVIRONMENTAL: an
\* event type starting with SPELL_PERIODIC or SPELL_BUILDING never yields
\* the generic Spell shape; Prefix::entries_to_consume returns the width (0,
\* 3, 3, 3, 3, 1) of the shape Prefix::parse selects; both fail with an
\* unknown-prefix error for any other name.
C18_PrefixPriority ==
    /\ (Returned("Prefix::parse") /\ RowsOf(call.event_type) = {}) => result = Err("Unknown prefix")
    /\ (Returned("Prefix::parse") /\ RowsOf(call.event_type) # {} /\ IsOk(result))
       => result.val.shape = RowOf(call.event_type).shape
    /\ (Returned("Prefix::parse") /\ IsOk(result)
        /\ (starts_with(call.event_type, "SPELL_PERIODIC") \/ starts_with(call.event_type, "SPELL_BUILDING")))
       => result.val.shape # "Spell"
    /\ Returned("Prefix::entries_to_consume")
       => result = IF RowsOf(call.event_type) = {} THEN Err("Unknown prefix") ELSE Ok(RowOf(call.event_type).width)

\* C18 witness: a SPELL_PERIODIC event type has been given its own shape
C18_Witness ==
    /\ Returned("Prefix::parse")
    /\ call.event_type = "SPELL_PERIODIC_DAMAGE"
    /\ IsOk(result)
    /\ result.val.shape = "SpellPeriodic"

\* C19: for a MISSED suffix whose miss type is anything other than ABSORB,
\* Suffix::parse reads only fields 0 and 1, succeeds on a 2-field record and
\* yields amount_missed = 0, base_amount = 0, critical = false; only for
\* ABSORB are fields 2, 3 and 4 read.
C19_MissedReadsByType ==
    (Returned("Suffix::parse") /\ ends_with(call.event_type, "MISSED") /\ Len(call.line) >= 2
     /\ IsOk(MissType_parse(call.line[1])) /\ IsOk(parse_bool(call.line[2])))
    => IF MissType_parse(call.line[1]).val # "Absorb"
       THEN result = Ok([shape |-> "Missed", miss_type |-> MissType_parse(call.line[1]).val,
                         offhand |-> parse_bool(call.line[2]).val, amount_missed |-> 0, base_amount |-> 0,
                         critical |-> FALSE])
       ELSE /\ Len(call.line) < 5 => result.tag = "Panic"
            /\ (Len(call.line) >= 5 /\ IsOk(result))
               => /\ Ok(result.val.amount_missed) = parse_num_u64(call.line[3])
                  /\ Ok(result.val.base_amount) = parse_num_u64(call.line[4])
                  /\ Ok(result.val.critical) = parse_bool(call.line[5])
            /\ (Len(call.line) >= 5 /\ ~IsOk(parse_num_u64(call.line[3]))) => ~IsOk(result)

\* C19 witness: a 2-field DODGE record has been decoded
C19_Witness ==
    /\ Returned("Suffix::parse")
    /\ call.event_type = "SWING_MISSED"
    /\ call.line = <<"DODGE", "nil">>
    /\ IsOk(result)
    /\ result.val.amount_missed = 0

C22_MaskToSchools ==
    Returned("SpellSchool::parse")
    => /\ \A n \in 0..255 :
            call.line[1] \in {Numeral(n, 10), "0x" \o Numeral(n, 16)}
            => /\ IsOk(result) /\ result.val.some
               /\ {result.val.v[i] : i \in DOMAIN result.val.v}
                  = {SpellSchoolBits[k].name : k \in {j \in DOMAIN SpellSchoolBits : (n \div SpellSchoolBits[j].bit) % 2 = 1}}
               /\ \A i, j \in DOMAIN result.val.v :
                      i < j => \E k, l \in DOMAIN SpellSchoolBits :
                                  /\ k < l
                                  /\ SpellSchoolBits[k].name = result.val.v[i]
                                  /\ SpellSchoolBits[l].name = result.val.v[j]
               /\ (n \in {0, 128}) => result = Ok(Some(<<>>))
       /\ call.line[1] = "-1" => result = Ok(None)
       /\ \A n \in 256..300 :
            call.line[1] \in {Numeral(n, 10), "0x" \o Numeral(n, 16)}
            => result = Err("Could not parse spell school as u8")

\* C22 witness: the mask 0x6a of tests::parse_spell_school has been decoded
\* to Holy, Nature, Shadow, Arcane, in that order
C22_Witness ==
    /\ Returned("SpellSchool::parse")
    /\ call.line[1] = "0x6a"
    /\ result = Ok(Some(<<"Holy", "Nature", "Shadow", "Arcane">>))

\* C23: a first field that is exactly COMBAT_LOG_VERSION is the only row
\* parsed without a timestamp and gets the placeholder 2024-01-01
\* 00:00:00.000; the same event under a timestamp parses to the same
\* payload with the parsed timestamp; any other first field without the
\* double-space separator yields an error.
C23_TimestamplessVersionRow ==
    (Returned("Event::parse") /\ Len(call.line) > 0)
    => /\ call.line = Sample.combat_log_version => IsOk(result)
       /\ (call.line[1] = "COMBAT_LOG_VERSION" /\ IsOk(result))
          => result.val.timestamp = [year |-> 2024, month |-> 1, day |-> 1, hour |-> 0, minute |-> 0, second |-> 0, nanos |-> 0]
       /\ call.line[1] = "4/6 14:09:44.867  COMBAT_LOG_VERSION"
          => /\ IsOk(result) <=> IsOk(Event_parse(<<"COMBAT_LOG_VERSION">> \o Tail(call.line)))
             /\ IsOk(result)
                => /\ result.val.event_type = Event_parse(<<"COMBAT_LOG_VERSION">> \o Tail(call.line)).val.event_type
                   /\ result.val.timestamp = [year |-> 2024, month |-> 4, day |-> 6, hour |-> 14, minute |-> 9, second |-> 44, nanos |-> 867000000]
       /\ (call.line[1] # "COMBAT_LOG_VERSION" /\ FindFrom(call.line[1], "  ", 1) = 0)
          => result = Err("Error splitting date & event type")

\* C23 witness: the version row of tests::parse_event has been parsed under
\* the placeholder timestamp, as a CombatLogInfo
C23_Witness ==
    /\ Returned("Event::parse")
    /\ call.line = Sample.combat_log_version
    /\ IsOk(result)
    /\ result.val.timestamp.month = 1 /\ result.val.timestamp.day = 1 /\ result.val.timestamp.nanos = 0
    /\ result.val.event_type.name = "COMBAT_LOG_VERSION"

\* C24: AdvancedParams::parse maps the 17-field window by fixed index:
\* fields 0 and 1 are the two GUIDs, 2..7 current hp, max hp, attack power,
\* spell power, armor and absorb, 8..11 the four power cells, 12 and 13 the
\* position x and y, 14 the ui map id, 15 the facing and 16 the level or
\* item level; facing is never read from field 14 nor the map id from
\* field 15.
C24_AdvancedFieldMap ==
    /\ (Returned("AdvancedParams::parse") /\ Len(call.line) = 17 /\ IsOk(result))
       => /\ Ok(result.val.info_guid) = GUID_parse(call.line[1])
          /\ Ok(result.val.owner_guid) = GUID_parse(call.line[2])
          /\ Ok(result.val.current_hp) = parse_num_u64(call.line[3])
          /\ Ok(result.val.max_hp) = parse_num_u64(call.line[4])
          /\ Ok(result.val.attack_power) = parse_num_u64(call.line[5])
          /\ Ok(result.val.spell_power) = parse_num_u64(call.line[6])
          /\ Ok(result.val.armor) = parse_num_u64(call.line[7])
          /\ Ok(result.val.absorb) = parse_num_u64(call.line[8])
          /\ \A i \in DOMAIN result.val.power_info :
                /\ Ok(result.val.power_info[i].power_type) = PowerType_parse(split(call.line[9], "|")[i])
                /\ Ok(result.val.power_info[i].current_power) = parse_num_u64(split(call.line[10], "|")[i])
                /\ Ok(result.val.power_info[i].max_power) = parse_num_u64(split(call.line[11], "|")[i])
                /\ Ok(result.val.power_info[i].power_cost) = parse_num_u64(split(call.line[12], "|")[i])
          /\ Ok(result.val.position.x) = parse_num_f32(call.line[13])
          /\ Ok(result.val.position.y) = parse_num_f32(call.line[14])
          /\ Ok(result.val.ui_map_id) = parse_num_u64(call.line[15])
          /\ Ok(result.val.position.facing) = parse_num_f32(call.line[16])
          /\ Ok(result.val.level_or_ilvl) = parse_num_u64(call.line[17])
    /\ (Returned("AdvancedParams::parse") /\ Len(call.line) = 17 /\ SubSeq(call.line, 1, 14) = <<"Player-1335-0A264B4C", "Creature-0-1469-2549-12530-210177-000011428F", "2", "3", "4", "5", "6", "7", "3|4", "43|6", "300|7", "25|8", "12.5", "13.5">>)
       => (IsOk(result) <=> (IsOk(parse_num_u64(call.line[15])) /\ IsOk(parse_num_f32(call.line[16]))))

\* C24 witness: a window whose 17 fields all differ, with a map id that is
\* no facing's numeral and a facing that is no integer, has been decoded
C24_Witness ==
    /\ Returned("AdvancedParams::parse")
    /\ Len(call.line) = 17
    /\ SubSeq(call.line, 13, 17) = <<"12.5", "13.5", "2232", "15.5", "16">>
    /\ IsOk(result)
    /\ result.val.ui_map_id = 2232
    /\ result.val.position = [x |-> [f32 |-> "12.5"], y |-> [f32 |-> "13.5"], facing |-> [f32 |-> "15.5"]]
    /\ result.val.level_or_ilvl = 16 /\ result.val.current_hp = 2 /\ result.val.absorb = 7
    /\ Len(result.val.power_info) = 2

\* C25: for every standard event other than ENVIRONMENTAL_DAMAGE the fields
\* after the timestamp are partitioned in order, with no gap and no overlap:
\* the source actor is fields 0..3, the target actor fields 4..7, the prefix
\* the next w fields (w the consumed prefix width), the advanced block the
\* next 17 fields if and only if has_advanced_params holds, and the suffix
\* decoder receives exactly the fields from index 8 + w + (17 or 0) to the
\* end of the line.
C25_FieldPartition ==
    (Returned("Event::parse") /\ cursor.entered /\ cursor.name # "ENVIRONMENTAL_DAMAGE"
     /\ IsOk(cursor.consume) /\ IsOk(cursor.has_adv))
    => LET w == cursor.consume.val
           a == IF cursor.has_adv.val THEN 17 ELSE 0
           n == Len(Fields)
       IN /\ cursor.dispatch \notin {"SPELL_ABSORBED", "SPELL_ABSORBED_SUPPORT"}
             => cursor.consume = entries_to_consume(cursor.dispatch)
          /\ cursor.has_adv = has_advanced_params(cursor.dispatch)
          /\ cursor.offset = 8 + w + a
          /\ 8 + w <= n => cursor.prefix = Prefix_parse(cursor.dispatch, SubSeq(Fields, 9, 8 + w))
          /\ (cursor.has_adv.val /\ 8 + w + 17 <= n)
             => cursor.advanced = SomeOf(AdvancedParams_parse(SubSeq(Fields, 9 + w, 8 + w + 17)))
          /\ ~cursor.has_adv.val => cursor.advanced = Ok(None)
          /\ 8 + w + a <= n => cursor.suffix = Suffix_parse(cursor.dispatch, SubSeq(Fields, 9 + w + a, n))
          /\ IsOk(result)
             => /\ Ok(EventOf(result).source) = Actor_parse(SubSeq(Fields, 1, 4))
                /\ Ok(EventOf(result).target) = Actor_parse(SubSeq(Fields, 5, 8))
                /\ Ok(EventOf(result).prefix) = cursor.prefix
                /\ Ok(EventOf(result).advanced_params) = cursor.advanced
                /\ Ok(EventOf(result).suffix) = cursor.suffix

\* C25 witness: a SPELL_DAMAGE line has been parsed with 3 prefix fields and
\* the advanced block, its suffix read from field 28 on
C25_Witness ==
    /\ Returned("Event::parse")
    /\ call.line = Sample.spell_damage
    /\ IsOk(result)
    /\ cursor.entered /\ cursor.consume = Ok(3) /\ cursor.has_adv = Ok(TRUE) /\ cursor.offset = 28
    /\ EventOf(result).suffix.shape = "Damage"

\* C26: the two suffix tables are in sync: for every event-type string,
\* has_advanced_params fails with the unknown-suffix error if and only if
\* Suffix::parse fails with the unknown-suffix error; the suffixes of the
\* allow-list and the deny-list together are exactly the suffixes the
\* suffix-shape dispatcher recognises.
C26_SuffixTablesInSync ==
    /\ Returned("Suffix::has_advanced_params")
       => (result = Err("Unknown suffix") <=> Suffix_parse(call.event_type, <<>>) = Err("Unknown suffix"))
    /\ Returned("Suffix::parse")
       => (result = Err("Unknown suffix") <=> has_advanced_params(call.event_type) = Err("Unknown suffix"))
    /\ (Returned("Suffix::has_advanced_params") \/ Returned("Suffix::parse"))
       => {advanced_suffixes[i] : i \in DOMAIN advanced_suffixes} \cup {non_advanced_suffixes[i] : i \in DOMAIN non_advanced_suffixes}
          = {SuffixArms[i] : i \in DOMAIN SuffixArms}

\* C26 witness: a _SUPPORT event type has been rejected by
\* has_advanced_params, and Suffix::parse rejects it as well
C26_Witness ==
    /\ Returned("Suffix::has_advanced_params")
    /\ call.event_type = "SPELL_DAMAGE_LANDED_SUPPORT"
    /\ result = Err("Unknown suffix")
    /\ Suffix_parse(call.event_type, <<>>) = Err("Unknown suffix")

\* the codes of the PowerType enumeration: -2 and 0..25
IsPowerCode(c) == IsOk(parse_num_i8(c)) /\ parse_num_i8(c).val \in ({0 - 2} \cup 0..25)

\* C30: suffix parsing for ENERGIZE, DRAIN and LEECH rejects the power-type
\* code "-1" with an error, whereas the advanced block's PowerInfo accepts
\* "-1" as an absent power type; in both places any other code outside the
\* PowerType enumeration (26, -3) is an error.
C30_PowerTypeSentinel ==
    /\ (Returned("Suffix::parse") /\ call \in PowerSuffixCalls)
       => LET c == IF SuffixArm(call.event_type) = "ENERGIZE" THEN call.line[3] ELSE call.line[2]
          IN /\ c = "-1" => result = Err("Invalid power type")
             /\ (c # "-1" /\ ~IsPowerCode(c)) => result.tag = "Err"
             /\ (c # "-1" /\ IsPowerCode(c)) => (IsOk(result) /\ Ok(Some(result.val.power_type)) = PowerType_parse(c))
    /\ (Returned("AdvancedParams::parse") /\ call.line \in {PowerCodeLine(c) : c \in PowerCodes})
       => LET c == call.line[9]
          IN /\ c = "-1" => (IsOk(result) /\ Len(result.val.power_info) = 1 /\ result.val.power_info[1].power_type = None)
             /\ (c # "-1" /\ ~IsPowerCode(c)) => result.tag = "Err"
             /\ (c # "-1" /\ IsPowerCode(c)) => (IsOk(result) /\ result.val.power_info[1].power_type.some)

\* C30 witness: a DRAIN payload with the code -1 has been rejected
C30_Witness ==
    /\ Returned("Suffix::parse")
    /\ call.event_type = "SPELL_DRAIN"
    /\ call.line = DrainPayload("-1")
    /\ result = Err("Invalid power type")

\* the number of items the handler at place h of the list has been given:
\* all that were yielded, less the one in hand for a handler not yet called
GivenTo(h) == IF pc = "handling" /\ h >= handlers.at THEN Len(parsed) - 1 ELSE Len(parsed)

\* the outcomes with the tag among the first n items yielded, in order
Yielded(tag, n) == SelectSeq([i \in 1..n |-> parsed[i].outcome], LAMBDA o : o.tag = tag)

\* C21: the stream consumer forwards every parse result, Ok or Err, to every
\* registered handler exactly once and in stream order, and an Err result
\* does not end the iteration; FileLogger appends each Ok result to the good
\* file only and each Err result to the bad file only.
C21_ForwardedOnceInOrder ==
    /\ [](\A h \in DOMAIN handlers.list :
            /\ handlers.seen[h] = [i \in 1..GivenTo(h) |-> i]
            /\ handlers.list[h] = "FileLogger"
               => /\ handlers.logger.good_file
                     = [i \in 1..Len(Yielded("Ok", GivenTo(h))) |-> DebugLine(Yielded("Ok", GivenTo(h))[i].val)]
                  /\ handlers.logger.bad_file
                     = [i \in 1..Len(Yielded("Err", GivenTo(h))) |-> DebugLine(Yielded("Err", GivenTo(h))[i].kind)])
    /\ [][/\ (pc = "handling" /\ pc' # "handling") => (pc' = "ready" /\ handlers.at = Len(handlers.list))
          /\ pc' = "panicked" => result'.tag = "Panic"
          /\ pc' = "end" => pc \in {"ready", "end"}]_vars

\* C21 witness: an Err result and then an Ok result have been yielded and
\* handled by both handlers, and the file logger holds one line in each file
C21_Witness ==
    /\ pc = "ready"
    /\ Len(parsed) = 2
    /\ parsed[1].outcome.tag = "Err" /\ parsed[2].outcome.tag = "Ok"
    /\ handlers.list = <<"DamageTracker", "FileLogger">>
    /\ handlers.seen = <<(<<1, 2>>), (<<1, 2>>)>>
    /\ Len(handlers.logger.good_file) = 1 /\ Len(handlers.logger.bad_file) = 1

\* the items the tracker counts: Ok Standard events with a Damage suffix and
\* a present source whose GUID is of a player
CountsAsDamage(o) ==
    /\ o.tag = "Ok"
    /\ EventOf(o).kind = "Standard"
    /\ EventOf(o).suffix.shape = "Damage"
    /\ EventOf(o).source # None
    /\ EventOf(o).source.v.guid.kind = "Player"

StartsEncounter(o) == o.tag = "Ok" /\ EventOf(o).kind = "Special" /\ EventOf(o).name = "ENCOUNTER_START"

\* the place of the last encounter start among the first n items, 0 when none
LastStart(n) == IF \E i \in 1..n : StartsEncounter(parsed[i].outcome)
                THEN CHOOSE i \in 1..n : StartsEncounter(parsed[i].outcome) /\ \A j \in (i + 1)..n : ~StartsEncounter(parsed[j].outcome)
                ELSE 0

\* the places of the counted items after the last encounter start
Counted(n) == {i \in (LastStart(n) + 1)..n : CountsAsDamage(parsed[i].outcome)}

\* the sum of the amounts of the counted items of the name at places up to k
RECURSIVE DamageSum(_, _, _)
DamageSum(name, n, k) ==
    IF k = 0 THEN 0
    ELSE DamageSum(name, n, k - 1)
         + (IF k \in Counted(n) /\ EventOf(parsed[k].outcome).source.v.name = name THEN EventOf(parsed[k].outcome).suffix.amount ELSE 0)

\* C28: after any sequence of handled parse results, DamageTracker's total
\* for each player name equals the sum of the Damage-suffix amounts of the
\* successfully parsed Standard events with a present Player-GUID source of
\* that name handled since the most recent EncounterStart (or since
\* creation); an EncounterStart empties the table and clears both times, and
\* Err results, events with absent or non-player sources and all other
\* event shapes leave the tracker unchanged.
C28_TrackerTotals ==
    LET n == GivenTo(1)
        t == handlers.tracker
    IN /\ DOMAIN t.accumulated = {EventOf(parsed[i].outcome).source.v.name : i \in Counted(n)}
       /\ \A name \in DOMAIN t.accumulated : t.accumulated[name] = DamageSum(name, n, n)
       /\ t.start_time = (IF Counted(n) = {} THEN None
                          ELSE Some(parsed[CHOOSE i \in Counted(n) : \A j \in Counted(n) : i <= j].outcome.val.timestamp))
       /\ t.latest_time = (IF Counted(n) = {} THEN None
                           ELSE Some(parsed[CHOOSE i \in Counted(n) : \A j \in Counted(n) : i >= j].outcome.val.timestamp))
       /\ (n > 0 /\ StartsEncounter(parsed[n].outcome)) => t = DamageTracker_new

\* C28 witness: the same player's damage has been handled twice after an
\* encounter start that followed another player's damage
C28_Witness ==
    /\ pc = "ready"
    /\ Len(parsed) = 3
    /\ StartsEncounter(parsed[1].outcome)
    /\ handlers.tracker.accumulated = [n \in {"Twigsneak-Ravencrest"} |-> 326]

\* C29: for any sequence of handled events, the duration that
\* DamageTracker::display divides the totals by is at least 1 second:
\* whenever start_time and latest_time are both set, latest_time is not
\* earlier than start_time, and when they are unset the duration is 1.
C29_DurationAtLeastOne ==
    /\ DamageTracker_duration(handlers.tracker) >= 1
    /\ (handlers.tracker.start_time # None /\ handlers.tracker.latest_time # None)
       => \/ SecondOfYear(handlers.tracker.start_time.v) < SecondOfYear(handlers.tracker.latest_time.v)
          \/ /\ SecondOfYear(handlers.tracker.start_time.v) = SecondOfYear(handlers.tracker.latest_time.v)
             /\ handlers.tracker.start_time.v.nanos <= handlers.tracker.latest_time.v.nanos
    /\ (handlers.tracker.start_time = None \/ handlers.tracker.latest_time = None)
       => DamageTracker_duration(handlers.tracker) = 1

\* C27: in watch mode, under any interleaving of appends to the log file and
\* file-change notifications (several notifications for one append, an
\* append that lands between the size measurement and the read to the end
\* of the file), every byte appended after the watcher recorded the initial
\* size is handed to the parser exactly once: none is parsed twice, and none
\* is skipped once every notification has been handled.
C27_AppendedParsedOnce ==
    /\ \A b \in (watch.initial + 1)..watch.size : watch.handed[b] <= 1
    /\ (pc = "waiting" /\ watch.rx = 0) => \A b \in (watch.initial + 1)..watch.size : watch.handed[b] >= 1
    /\ \A b \in 1..watch.initial : watch.handed[b] = 0

====
